---- MODULE Spec2Model ----
(***************************************************************************)
(* disktest: the parallel keystream engine.                                *)
(*                                                                         *)
(* Part 1 (specification Spec): the generator streams (stream.rs) and the  *)
(* stream aggregator (stream_aggregator.rs).  Each DtStream owns one       *)
(* worker thread; the main thread activates the aggregator and pulls       *)
(* chunks in round-robin order.  A step of a thread holds at most one      *)
(* access to the memory it shares with another thread (the flags, the      *)
(* level counter, the channel), so their interleavings are all explored.   *)
(*                                                                         *)
(* Part 2 (specification SpecDrv): the write and verify pumps of the       *)
(* Disktest driver (disktest.rs) against an endpoint of bounded capacity.  *)
(*                                                                         *)
(* Further parts: the round loop of main (SpecMain), the cycle of the      *)
(* chunk buffers through the buffer cache (SpecBuf), the key derivation    *)
(* (SpecKdf), one generator on its own (SpecGen), the write of the         *)
(* Windows raw I/O backend (SpecRawIo), the buffer cache on its own        *)
(* (SpecCache) and the life of one stream and its worker threads           *)
(* (SpecLife).                                                             *)
(***************************************************************************)
EXTENDS Integers, Sequences, FiniteSets, TLC

\* ------------------------------------------------------------------------
\* Bounds of the model.
\* ------------------------------------------------------------------------
\* Largest number of generator threads of an aggregator.
MaxThreads == 2
\* Chunks one worker produces per activation when the aggregator has one stream.
StreamMaxIndex == 10
\* Chunks one worker produces per activation when the aggregator has several streams.
AggMaxIndex == 2
\* Largest activation offset, in chunks.
MaxOffsetChunks == 3
\* Number of DtStreamAgg::activate calls in one behaviour.
MaxActivations == 2
\* Number of Disktest::write and of Disktest::verify calls in one behaviour.
MaxWrites == 2
MaxVerifies == 1
MaxRounds == 3
\* Chunk buffers allocated in one behaviour of the buffer cycle.
MaxBufs == 4
\* Largest thread_id and round_id the key derivation is called with.
MaxKdfThread == 1
MaxKdfRound == 1
\* Calls made on one generator, and the largest seek offset in base blocks.
MaxGenOps == 3
MaxSeekBlocks == 3
\* Calls of RawIo write in one behaviour, and the largest buffer of one call.
MaxRawWrites == 2
MaxRawLen == 3
\* BufCache on its own: consumers made, pushes accepted, longest pull
MaxCacheCons == 3
MaxCachePushes == 3
MaxCacheLen == 2
\* one DtStream on its own: worker threads spawned
MaxSpawns == 3
\* Generator base block size in bytes (2048 in the program) and base blocks per chunk.
BASE_SIZE == 2
CHUNK_FACTOR == 2

\* ------------------------------------------------------------------------
\* Program constants.
\* ------------------------------------------------------------------------
MAX_THRES == 8
LO_THRES == 4
\* The seed of the tests, folded to one number.
SEED == 3

Streams == 0 .. (MaxThreads - 1)
ChunkSize == BASE_SIZE * CHUNK_FACTOR

Min(a, b) == IF a < b THEN a ELSE b

\* ------------------------------------------------------------------------
\* Generator (generator/crc.rs): a seekable block generator.
\* ------------------------------------------------------------------------
\* Per-thread key derived from the seed.
kdf(seed, thread_id) == seed + thread_id

\* One output byte of the base block with the given counter.
GenByte(key, counter, offs) == (key * 17 + counter * 5 + offs) % 256

\* GeneratorCrc::next: count base blocks starting at block `counter`.
GenNext(key, counter, count) ==
    [p \in 1 .. (BASE_SIZE * count) |->
        GenByte(key, counter + ((p - 1) \div BASE_SIZE), (p - 1) % BASE_SIZE)]

\* GeneratorCrc::next increments the counter once per base block (a variant
\* that increments it once per call is GenCounterAfterOncePerCall).
GenCounterAfterOncePerCall(counter, count) == counter + 1
GenCounterAfter(counter, count) == counter + count

\* GeneratorCrc::seek: the new counter, or -1 when the offset is not seekable
\* (a variant that takes the byte offset for the counter is GenSeekBytes).
GenSeekBytes(byte_offset) ==
    IF byte_offset % BASE_SIZE # 0 THEN -1 ELSE byte_offset
GenSeek(byte_offset) ==
    IF byte_offset % BASE_SIZE # 0 THEN -1 ELSE byte_offset \div BASE_SIZE

\* Bit pattern inversion of the worker: every byte XOR 0xFF (a variant that
\* negates the byte, the two's complement, is InvertDataNegate).
InvertDataNegate(data) == [p \in DOMAIN data |-> (256 - data[p]) % 256]
InvertData(data) == [p \in DOMAIN data |-> 255 - data[p]]

\* The chunk data the worker of thread_id computes with its generator at `counter`.
WorkerChunkData(thread_id, counter, invert) ==
    LET raw == GenNext(kdf(SEED, thread_id), counter, CHUNK_FACTOR)
    IN  IF invert THEN InvertData(raw) ELSE raw

\* ------------------------------------------------------------------------
\* Aggregator offset arithmetic (DtStreamAgg::activate).
\* ------------------------------------------------------------------------
\* The seek offset rounded down to a chunk boundary (a variant that rounds up
\* is GoodOffsetUp).
GoodOffsetUp(byte_offset) ==
    IF byte_offset % ChunkSize # 0
    THEN byte_offset + (ChunkSize - (byte_offset % ChunkSize))
    ELSE byte_offset
GoodOffset(byte_offset) ==
    IF byte_offset % ChunkSize # 0
    THEN byte_offset - (byte_offset % ChunkSize)
    ELSE byte_offset

\* Global index of the chunk that holds the offset.
ChunkIndexOf(byte_offset) == GoodOffset(byte_offset) \div ChunkSize

\* The stream the round-robin pull starts at after an activation (a variant
\* that always starts at stream 0 is ActCurrentIndexZero).
ActCurrentIndexZero(byte_offset, n) == 0
ActCurrentIndex(byte_offset, n) == ChunkIndexOf(byte_offset) % n

\* Byte offset within its own keystream at which stream i is activated (a
\* variant without the stagger of the streams below current_index is
\* ThreadOffsetNoStagger).
ThreadOffsetNoStagger(byte_offset, n, i) ==
    (ChunkIndexOf(byte_offset) \div n) * ChunkSize
ThreadOffset(byte_offset, n, i) ==
    LET iteration == ChunkIndexOf(byte_offset) \div n
    IN  IF i < ActCurrentIndex(byte_offset, n)
        THEN (iteration + 1) * ChunkSize
        ELSE iteration * ChunkSize

\* DtStreamAgg::get_chunk: the stream to pull from after a chunk was returned
\* (a variant that keeps pulling from the same stream is NextIndexStuck).
NextIndexStuck(cur, n) == cur
NextIndex(cur, n) == (cur + 1) % n

\* ------------------------------------------------------------------------
\* State.
\* ------------------------------------------------------------------------
VARIABLES
    \* configuration of the aggregator under test
    num_threads,        \* DtStreamAgg.num_threads
    invert_pattern,     \* DtStream.invert_pattern
    max_index,          \* production bound of one worker per activation
    \* DtStream fields, one per stream
    is_active,          \* DtStream.is_active
    thread_join,        \* DtStream.thread_join is Some
    abort,              \* DtStream.abort (AtomicBool)
    error,              \* DtStream.error (AtomicBool)
    level,              \* DtStream.level (AtomicIsize)
    sleeping,           \* DtStream.sleep.0 (Mutex<bool>)
    rx,                 \* the channel worker -> main thread: chunks sent, not yet received
    \* worker thread locals, one per stream
    wpc,                \* position of the worker thread
    w_offset,           \* byte_offset argument of thread_worker
    w_counter,          \* generator counter, in base blocks
    w_index,            \* index of the next chunk
    w_cur_level,        \* cur_level
    \* DtStreamAgg fields
    current_index,      \* DtStreamAgg.current_index
    agg_active,         \* DtStreamAgg.is_active
    \* main thread: position, locals of the call in progress, observations
    mpc,                \* position of the main thread
    act_i,              \* loop variable of activate
    act_offset,         \* (adjusted) byte offset of the activation in progress / last done
    act_req,            \* arguments of the last DtStreamAgg::activate call
    act_result,         \* result of the last DtStreamAgg::activate call: "none", "ok", "err"
    s_offset,           \* byte_offset argument of the last DtStream::activate, per stream
    call_errors,        \* streams whose error flag was set when wait_chunk was last called
    got,                \* the chunk try_recv returned, before level is decremented
    nact,               \* number of activate calls so far
    out,                \* chunks returned by wait_chunk since the last activation
    last_result,        \* result of the last wait_chunk call: "none", "ok", "err"
    \* the endpoint (DisktestFile and the file or device behind it)
    disk,               \* content of the file or device, byte p at disk[p + 1]
    capacity,           \* bytes the device accepts before it reports out-of-space
    fpos,               \* file pointer
    f_open,             \* DisktestFile.file is Some
    \* Disktest
    abort_req,          \* Disktest.abort (set by the signal handler)
    \* locals of Disktest::write / Disktest::verify
    dpc,                \* "idle", "write" (in the write loop), "verify" (in the verify loop)
    d_seek,             \* seek argument
    d_adj,              \* seek as adjusted by init
    d_max,              \* max_bytes argument
    bytes_left,
    bytes_done,         \* bytes_written of write, bytes_read of verify
    buffer,             \* read buffer of verify
    read_count,
    read_len,
    \* observations
    saw_enospc,         \* the endpoint reported out-of-space during this call
    finalized,          \* calls of write_finalize / verify_finalize during this call
    last_write,         \* the last endpoint write of the write pump
    hist,               \* the calls that have returned, with their results
    corrupted,          \* position of the byte changed behind the driver's back, or -1
    compared,           \* the comparisons of the verify loop of this call, in order
    \* main: the arguments, the locals of the round loop, observations
    args,               \* Args as parse_args returns them
    round,              \* loop variable of the round loop
    result,             \* result
    main_pc,            \* position of main
    runs,               \* the write and verify modes main has started, in order
    \* the chunk buffers (Vec<u8>), each named by a number from 1
    b_alloc,            \* buffers allocated so far (Vec::with_capacity in pull)
    b_freed,            \* buffers deallocated
    b_data,             \* thread_worker: the buffer `data` of each worker, 0 for none
    b_rx,               \* buffers of the chunks in the channel of each stream
    b_held,             \* the DtStreamAggChunk wrappers the consumer holds
    b_cache,            \* BufCache: the buffers in the channel of each consumer id
    \* calls of functions that keep no state
    kdf_in,             \* two argument triples of kdf
    kdf_out,            \* what kdf made of each triple, once it was called
    \* one generator (NextRandom) and the calls made on it
    g_key,              \* the seed the generator was made from
    g_counter,          \* GeneratorCrc.counter
    g_hist,             \* the calls of next and seek so far, with their results
    \* RawIoWindows / RawIoOs (windows)
    rio_version,        \* the file the backend is taken from
    rio_write_mode,     \* write_mode
    rio_disk_size,      \* disk_size
    rio_cur_offset,     \* cur_offset
    rio_calls,          \* write calls so far
    rio_last,           \* the last write call: what the system did, what write returned
    \* BufCache on its own
    bc_snd,             \* BufCache.snd: consumer id -> the channel its sender feeds, 0 for no entry
    bc_id,              \* per channel: the id new_consumer was called with
    bc_alive,           \* per channel: the BufCacheCons (the receiver) is not dropped
    bc_chan,            \* per channel: the buffers sent and not yet received
    bc_log,             \* per channel: every buffer ever put into it, with the id of its push
    bc_taken,           \* per channel: the number of buffers pull has taken from it
    bc_last,            \* the last call of push or pull and what it did
    bc_panic,           \* a push has panicked
    \* one DtStream on its own, with the worker threads it has spawned
    lf_pc,              \* position of the main thread in the call in progress
    lf_call,            \* the call in progress: "activate" or "drop"
    lf_active,          \* DtStream.is_active
    lf_join,            \* DtStream.thread_join: the thread of the handle, 0 for None
    lf_joining,         \* the thread of the handle stop has taken and joins, 0 for none
    lf_abort,           \* DtStream.abort
    lf_error,           \* DtStream.error
    lf_threads,         \* position of every worker thread spawned so far
    lf_last             \* result of the last get_chunk

streamVars == <<is_active, thread_join, abort, error, level, sleeping, rx>>
workerVars == <<wpc, w_offset, w_counter, w_index, w_cur_level>>
aggVars == <<current_index, agg_active>>
mainRest == <<mpc, act_i, got, nact, out, last_result>>
actVars == <<act_req, act_result, s_offset, call_errors>>
mainVars == <<mainRest, act_offset, actVars>>
cfgVars == <<num_threads, invert_pattern, max_index>>
epVars == <<disk, capacity, fpos, f_open>>
drvVars == <<epVars, abort_req, dpc, d_seek, d_adj, d_max, bytes_left, bytes_done,
             buffer, read_count, read_len, saw_enospc, finalized, last_write, hist,
             corrupted, compared>>
roundVars == <<args, round, result, main_pc, runs>>
progVars == <<cfgVars, streamVars, workerVars, aggVars, mainVars, drvVars>>
bufVars == <<b_alloc, b_freed, b_data, b_rx, b_held, b_cache>>
kdfVars == <<kdf_in, kdf_out>>
genVars == <<g_key, g_counter, g_hist>>
rioVars == <<rio_version, rio_write_mode, rio_disk_size, rio_cur_offset, rio_calls, rio_last>>
cacheVars == <<bc_snd, bc_id, bc_alive, bc_chan, bc_log, bc_taken, bc_last, bc_panic>>
lifeVars == <<lf_pc, lf_call, lf_active, lf_join, lf_joining, lf_abort, lf_error,
              lf_threads, lf_last>>
extVars == <<cacheVars, lifeVars>>
fnVars == <<kdfVars, genVars, rioVars, extVars>>
vars == <<progVars, roundVars, bufVars, fnVars>>

\* No DtStreamAgg::activate call was made yet.
NoRequest == [byte_offset |-> 0, sector_size |-> 0]

NoChunk == [index |-> -1, data |-> <<>>]

NoWrite == [pos |-> -1, before |-> -1, data |-> <<>>]

\* DtStream::new for every stream, DtStreamAgg::new.
InitStreams ==
    /\ num_threads \in 1 .. MaxThreads
    /\ invert_pattern \in BOOLEAN
    /\ max_index = IF num_threads = 1 THEN StreamMaxIndex ELSE AggMaxIndex
    /\ is_active = [i \in Streams |-> FALSE]
    /\ thread_join = [i \in Streams |-> FALSE]
    /\ abort = [i \in Streams |-> FALSE]
    /\ error = [i \in Streams |-> FALSE]
    /\ level = [i \in Streams |-> 0]
    /\ sleeping = [i \in Streams |-> FALSE]
    /\ rx = [i \in Streams |-> <<>>]
    /\ wpc = [i \in Streams |-> "none"]
    /\ w_offset = [i \in Streams |-> 0]
    /\ w_counter = [i \in Streams |-> 0]
    /\ w_index = [i \in Streams |-> 0]
    /\ w_cur_level = [i \in Streams |-> 0]
    /\ current_index = 0
    /\ agg_active = FALSE
    /\ mpc = "idle"
    /\ act_i = 0
    /\ act_offset = 0
    /\ act_req = NoRequest
    /\ act_result = "none"
    /\ s_offset = [i \in Streams |-> 0]
    /\ call_errors = {}
    /\ got = NoChunk
    /\ nact = 0
    /\ out = <<>>
    /\ last_result = "none"
    /\ b_alloc = 0
    /\ b_freed = {}
    /\ b_data = [i \in Streams |-> 0]
    /\ b_rx = [i \in Streams |-> <<>>]
    /\ b_held = <<>>
    /\ b_cache = [i \in Streams |-> <<>>]

\* Disktest::new; no call of write or verify in progress.
\* The result Ok(()), and the arguments before parse_args has run.
OkResult == [ok |-> TRUE, mode |-> "", round |-> -1, err |-> ""]
NoArgs == [write |-> FALSE, verify |-> FALSE, rounds |-> 0, start_round |-> 0,
           cli_rounds |-> 0]

\* main is not running.
NoRawCall == [len |-> 0, ok |-> TRUE, write_count |-> 0, code |-> "", before |-> 0,
              result |-> "none", n |-> 0]

\* No call of a stateless function was made.
NoCall == [password |-> <<>>, salt |-> <<>>, dk |-> <<>>]
\* BufCache::new: no consumer registered.
NoCacheCall == [op |-> "", id |-> 0, cons |-> 0, len |-> 0, buf |-> <<>>, avail |-> FALSE]
CacheIds == {42, 43}
InitNoCache ==
    /\ bc_snd = [id \in CacheIds |-> 0]
    /\ bc_id = <<>>
    /\ bc_alive = <<>>
    /\ bc_chan = <<>>
    /\ bc_log = <<>>
    /\ bc_taken = <<>>
    /\ bc_last = NoCacheCall
    /\ bc_panic = FALSE

\* DtStream::new: not active, no worker thread.
InitNoLife ==
    /\ lf_pc = "idle"
    /\ lf_call = ""
    /\ lf_active = FALSE
    /\ lf_join = 0
    /\ lf_joining = 0
    /\ lf_abort = FALSE
    /\ lf_error = FALSE
    /\ lf_threads = <<>>
    /\ lf_last = ""

InitNoCalls ==
    /\ kdf_in = <<>>
    /\ kdf_out = <<>>
    /\ g_key = 0
    /\ g_counter = 0
    /\ g_hist = <<>>
    /\ InitNoCache
    /\ InitNoLife
    /\ rio_version = ""
    /\ rio_write_mode = FALSE
    /\ rio_disk_size = 0
    /\ rio_cur_offset = 0
    /\ rio_calls = 0
    /\ rio_last = NoRawCall

InitNoMain ==
    /\ args = NoArgs
    /\ round = 0
    /\ result = OkResult
    /\ main_pc = "returned"
    /\ runs = <<>>

InitDriver ==
    /\ abort_req = FALSE
    /\ dpc = "idle"
    /\ d_seek = 0
    /\ d_adj = 0
    /\ d_max = 0
    /\ bytes_left = 0
    /\ bytes_done = 0
    /\ buffer = <<>>
    /\ read_count = 0
    /\ read_len = 0
    /\ saw_enospc = FALSE
    /\ finalized = 0
    /\ last_write = NoWrite
    /\ hist = <<>>
    /\ corrupted = -1
    /\ compared = <<>>

\* The streams and the aggregator alone: no endpoint is attached.
Init ==
    /\ InitStreams
    /\ InitDriver
    /\ InitNoCalls
    /\ InitNoMain
    /\ disk = <<>>
    /\ capacity = 0
    /\ fpos = 0
    /\ f_open = FALSE

\* ------------------------------------------------------------------------
\* Worker thread (thread_worker).
\* ------------------------------------------------------------------------
\* Construct the generator and seek it to byte_offset; on failure set the
\* error flag and return.  Then enter the work loop with cur_level = level.
WorkerSeek(i) ==
    /\ wpc[i] = "start"
    /\ IF GenSeek(w_offset[i]) < 0
       THEN /\ error' = [error EXCEPT ![i] = TRUE]
            /\ wpc' = [wpc EXCEPT ![i] = "done"]
            /\ UNCHANGED <<w_counter, w_index, w_cur_level>>
       ELSE /\ w_counter' = [w_counter EXCEPT ![i] = GenSeek(w_offset[i])]
            /\ w_index' = [w_index EXCEPT ![i] = 0]
            /\ w_cur_level' = [w_cur_level EXCEPT ![i] = level[i]]
            /\ wpc' = [wpc EXCEPT ![i] = "loop"]
            /\ UNCHANGED error
    /\ UNCHANGED <<fnVars, bufVars, roundVars, cfgVars, is_active, thread_join, abort, level, sleeping, rx,
                   w_offset, aggVars, mainVars>>
    /\ UNCHANGED <<drvVars, actVars>>

\* The worker computes a further chunk while cur_level is below MAX_THRES (a
\* variant that also computes one at MAX_THRES is MayProduceInclusive).
MayProduceInclusive(cur_level) == cur_level <= MAX_THRES
MayProduce(cur_level) == cur_level < MAX_THRES

\* The loop condition of the worker: it leaves the loop once the abort flag is
\* set (a variant that never looks at the flag is LoopExitNever).
LoopExitNever(abort_flag) == FALSE
LoopExit(abort_flag) == abort_flag

\* Loop head: read the abort flag, then branch on cur_level.
WorkerLoop(i) ==
    /\ wpc[i] = "loop"
    /\ wpc' = [wpc EXCEPT ![i] =
                IF LoopExit(abort[i]) THEN "done"
                ELSE IF MayProduce(w_cur_level[i]) THEN "gen"
                ELSE "wait"]
    /\ UNCHANGED <<fnVars, bufVars, roundVars, cfgVars, streamVars, w_offset, w_counter, w_index, w_cur_level,
                   aggVars, mainVars>>
    /\ UNCHANGED <<drvVars, actVars>>

\* Compute the next chunk and send it to the main thread.
WorkerSend(i) ==
    /\ wpc[i] = "gen"
    /\ w_index[i] < max_index
    /\ rx' = [rx EXCEPT ![i] = Append(@,
                [index |-> w_index[i],
                 data |-> WorkerChunkData(i, w_counter[i], invert_pattern)])]
    /\ w_counter' = [w_counter EXCEPT ![i] = GenCounterAfter(@, CHUNK_FACTOR)]
    /\ w_index' = [w_index EXCEPT ![i] = @ + 1]
    /\ wpc' = [wpc EXCEPT ![i] = "sent"]
    /\ UNCHANGED <<fnVars, bufVars, roundVars, cfgVars, is_active, thread_join, abort, error, level, sleeping,
                   w_offset, w_cur_level, aggVars, mainVars>>
    /\ UNCHANGED <<drvVars, actVars>>

\* cur_level = level.fetch_add(1) + 1
WorkerLevelInc(i) ==
    /\ wpc[i] = "sent"
    /\ level' = [level EXCEPT ![i] = @ + 1]
    /\ w_cur_level' = [w_cur_level EXCEPT ![i] = level[i] + 1]
    /\ wpc' = [wpc EXCEPT ![i] = "loop"]
    /\ UNCHANGED <<fnVars, bufVars, roundVars, cfgVars, is_active, thread_join, abort, error, sleeping, rx,
                   w_offset, w_counter, w_index, aggVars, mainVars>>
    /\ UNCHANGED <<drvVars, actVars>>

\* The level the worker goes on with after the wait branch: it reloads the
\* level counter (a variant that keeps its old value is WaitLevelStale).
WaitLevelStale(cur_level, lvl) == cur_level
WaitLevel(cur_level, lvl) == lvl

\* The chunk buffer is full: wait while the sleeping flag is set, then reload level.
WorkerWait(i) ==
    /\ wpc[i] = "wait"
    /\ ~sleeping[i]
    /\ w_cur_level' = [w_cur_level EXCEPT ![i] = WaitLevel(@, level[i])]
    /\ wpc' = [wpc EXCEPT ![i] = "loop"]
    /\ UNCHANGED <<fnVars, bufVars, roundVars, cfgVars, streamVars, w_offset, w_counter, w_index, aggVars, mainVars>>
    /\ UNCHANGED <<drvVars, actVars>>

Worker(i) ==
    \/ WorkerSeek(i)
    \/ WorkerLoop(i)
    \/ WorkerSend(i)
    \/ WorkerLevelInc(i)
    \/ WorkerWait(i)

\* ------------------------------------------------------------------------
\* Main thread: DtStreamAgg::activate, DtStream::stop / start.
\* ------------------------------------------------------------------------
\* Byte offsets activate is called with: the chunk boundaries, and offsets
\* inside the chunks between the first and the last.
ActivateOffsets ==
    {c * ChunkSize : c \in 0 .. MaxOffsetChunks}
        \union {c * ChunkSize + 1 : c \in 1 .. (MaxOffsetChunks - 1)}

\* The (byte_offset, sector_size) arguments of the activate calls: every
\* offset with a sector size that divides the chunk size, two offsets with one
\* that does not.
ActivateRequests ==
    {<<o, BASE_SIZE>> : o \in ActivateOffsets}
        \union {<<o, ChunkSize - 1>> : o \in {0, ChunkSize + 1}}

\* DtStreamAgg::calc_chunk_size: the chunk size must be a whole multiple of the
\* sector size (a variant without the check is GeometryOkAlways).
GeometryOkAlways(chunk_size, sector_size) == TRUE
GeometryOk(chunk_size, sector_size) == chunk_size % sector_size = 0

\* DtStreamAgg::activate up to the loop over the streams: fail on a geometry
\* mismatch; else round the offset down to a chunk boundary, set current_index
\* and compute the thread offsets.  The streams in `bad` are handed an offset
\* their generator cannot seek to (one byte above the thread offset).
ActivateWith(byte_offset, sector_size, bad) ==
    /\ mpc = "idle"
    /\ nact < MaxActivations
    /\ nact' = nact + 1
    /\ act_req' = [byte_offset |-> byte_offset, sector_size |-> sector_size]
    /\ IF ~GeometryOk(ChunkSize, sector_size)
       THEN /\ act_result' = "err"
            /\ UNCHANGED <<act_offset, current_index, act_i, out, last_result, mpc,
                           s_offset>>
       ELSE /\ act_result' = "none"
            /\ act_offset' = GoodOffset(byte_offset)
            /\ current_index' = ActCurrentIndex(byte_offset, num_threads)
            /\ s_offset' = [i \in Streams |->
                              IF i < num_threads
                              THEN ThreadOffset(byte_offset, num_threads, i)
                                       + (IF i \in bad THEN 1 ELSE 0)
                              ELSE s_offset[i]]
            /\ act_i' = 0
            /\ out' = <<>>
            /\ last_result' = "none"
            /\ mpc' = "stop"
    /\ UNCHANGED <<fnVars, bufVars, roundVars, cfgVars, streamVars, workerVars, agg_active, got, call_errors>>
    /\ UNCHANGED drvVars

\* DtStreamAgg::activate as the aggregator calls its streams: every stream gets
\* its thread offset.
ActivateBegin(byte_offset, sector_size) == ActivateWith(byte_offset, sector_size, {})

\* DtStream::stop of stream act_i, up to the join: clear is_active, set the
\* abort flag, wake the worker.
StreamStop ==
    /\ mpc = "stop"
    /\ is_active' = [is_active EXCEPT ![act_i] = FALSE]
    /\ abort' = [abort EXCEPT ![act_i] = TRUE]
    /\ sleeping' = [sleeping EXCEPT ![act_i] = FALSE]
    /\ mpc' = "join"
    /\ UNCHANGED <<fnVars, bufVars, roundVars, cfgVars, thread_join, error, level, rx, workerVars, aggVars,
                   act_i, act_offset, got, nact, out, last_result>>
    /\ UNCHANGED <<drvVars, actVars>>

\* DtStream::start makes a new channel: the chunks still in the old one are
\* dropped with it (a variant that keeps the old channel is ChannelAfterStartKeep).
ChannelAfterStartKeep(chan) == chan
ChannelAfterStart(chan) == <<>>

\* The join of DtStream::stop returns once the worker has returned; stop then
\* clears the abort flag and DtStream::start spawns the new worker.  After the
\* last stream the aggregator is active.
StreamJoinStart ==
    /\ mpc = "join"
    /\ thread_join[act_i] => wpc[act_i] = "done"
    /\ abort' = [abort EXCEPT ![act_i] = FALSE]
    /\ error' = [error EXCEPT ![act_i] = FALSE]
    /\ level' = [level EXCEPT ![act_i] = 0]
    /\ rx' = [rx EXCEPT ![act_i] = ChannelAfterStart(@)]
    /\ wpc' = [wpc EXCEPT ![act_i] = "start"]
    /\ w_offset' = [w_offset EXCEPT ![act_i] = s_offset[act_i]]
    /\ thread_join' = [thread_join EXCEPT ![act_i] = TRUE]
    /\ is_active' = [is_active EXCEPT ![act_i] = TRUE]
    /\ IF act_i + 1 < num_threads
       THEN /\ act_i' = act_i + 1
            /\ mpc' = "stop"
            /\ UNCHANGED agg_active
            /\ UNCHANGED act_result
       ELSE /\ act_i' = 0
            /\ mpc' = "idle"
            /\ agg_active' = TRUE
            /\ act_result' = "ok"
    /\ UNCHANGED <<fnVars, bufVars, roundVars, cfgVars, sleeping, w_counter, w_index, w_cur_level,
                   current_index, act_offset, got, nact, out, last_result>>
    /\ UNCHANGED <<drvVars, act_req, s_offset, call_errors>>

\* ------------------------------------------------------------------------
\* Main thread: DtStreamAgg::wait_chunk, DtStreamAgg::get_chunk,
\* DtStream::get_chunk.
\* ------------------------------------------------------------------------
\* wait_chunk is called on an active aggregator.
WaitChunkCall ==
    /\ mpc = "idle"
    /\ agg_active
    /\ mpc' = "get"
    /\ last_result' = "none"
    /\ call_errors' = {i \in 0 .. (num_threads - 1) : error[i]}
    /\ UNCHANGED <<fnVars, bufVars, roundVars, cfgVars, streamVars, workerVars, aggVars, act_i, act_offset,
                   got, nact, out>>
    /\ UNCHANGED <<drvVars, act_req, act_result, s_offset>>

\* One get_chunk of the stream at current_index, up to try_recv: an error if
\* the stream is not active or its error flag is set; None (and a wake of the
\* worker) if the channel is empty, and wait_chunk polls again.
GetChunkTry ==
    /\ mpc = "get"
    /\ LET i == current_index IN
       IF ~is_active[i] \/ error[i]
       THEN /\ last_result' = "err"
            /\ mpc' = "idle"
            /\ UNCHANGED <<sleeping, rx, got>>
       ELSE IF rx[i] = <<>>
       THEN /\ sleeping' = [sleeping EXCEPT ![i] = FALSE]
            /\ UNCHANGED <<rx, got, mpc, last_result>>
       ELSE /\ got' = Head(rx[i])
            /\ rx' = [rx EXCEPT ![i] = Tail(@)]
            /\ mpc' = "recvd"
            /\ UNCHANGED <<sleeping, last_result>>
    /\ UNCHANGED <<fnVars, bufVars, roundVars, cfgVars, is_active, thread_join, abort, error, level,
                   workerVars, aggVars, act_i, act_offset, nact, out>>
    /\ UNCHANGED <<drvVars, actVars>>

\* DtStreamAgg::get_chunk builds the wrapper after it has advanced
\* current_index: the thread_id of the wrapper is the new current_index.
WrapperThreadId(cur, n) == NextIndex(cur, n)

\* Drop for DtStreamAggChunk: the cache slot the buffer of the wrapper is pushed to.
DropSlot(chunk) == chunk.thread_id

\* level.fetch_sub(1), the wake at the low watermark (it changes only the
\* sleeping flag, which the worker reads under the same mutex), and the return
\* of the chunk through DtStreamAgg::get_chunk, which advances current_index.
GetChunkReturn ==
    /\ mpc = "recvd"
    /\ LET i == current_index IN
       /\ level' = [level EXCEPT ![i] = @ - 1]
       /\ sleeping' = [sleeping EXCEPT ![i] =
                         IF level[i] - 1 <= LO_THRES THEN FALSE ELSE @]
       /\ out' = Append(out, [stream |-> i, index |-> got.index, data |-> got.data,
                               thread_id |-> WrapperThreadId(i, num_threads)])
    /\ current_index' = NextIndex(current_index, num_threads)
    /\ got' = NoChunk
    /\ last_result' = "ok"
    /\ mpc' = "idle"
    /\ UNCHANGED <<fnVars, bufVars, roundVars, cfgVars, is_active, thread_join, abort, error, rx, workerVars,
                   agg_active, act_i, act_offset, nact>>
    /\ UNCHANGED <<drvVars, actVars>>

Next ==
    \/ \E i \in 0 .. (num_threads - 1) : Worker(i)
    \/ \E req \in ActivateRequests : ActivateBegin(req[1], req[2])
    \/ StreamStop
    \/ StreamJoinStart
    \/ WaitChunkCall
    \/ GetChunkTry
    \/ GetChunkReturn

Spec == Init /\ [][Next]_vars

\* The streams driven through DtStream::activate with byte offsets of the
\* caller's choice, seekable or not: any set of streams may be handed an offset
\* its generator cannot seek to.
StreamRequests == {<<0, BASE_SIZE>>, <<ChunkSize, BASE_SIZE>>, <<0, ChunkSize - 1>>}

NextStream ==
    \/ \E i \in 0 .. (num_threads - 1) : Worker(i)
    \/ \E req \in StreamRequests, bad \in SUBSET (0 .. (num_threads - 1)) :
          ActivateWith(req[1], req[2], bad)
    \/ StreamStop
    \/ StreamJoinStart
    \/ WaitChunkCall
    \/ GetChunkTry
    \/ GetChunkReturn

SpecStream == Init /\ [][NextStream]_vars

\* Fair scheduling: every worker thread that can take a step eventually takes
\* one, and the main thread does not stop inside wait_chunk.
Fairness ==
    /\ \A i \in Streams : WF_vars(Worker(i))
    /\ WF_vars(GetChunkTry)
    /\ WF_vars(GetChunkReturn)

SpecFair == Spec /\ Fairness

\* The streams with offsets of the caller's choice, under the same scheduling.
SpecStreamFair == SpecStream /\ Fairness

\* ------------------------------------------------------------------------
\* Endpoint: DisktestFile over a file or device that accepts `capacity` bytes.
\* ------------------------------------------------------------------------
Max(a, b) == IF a > b THEN a ELSE b

\* DisktestFile::seek_noflush: the file pointer after a seek to offset (a
\* variant that leaves the pointer where it was is FileSeekKeep).
FileSeekKeep(pos, offset) == pos
FileSeek(pos, offset) == offset

\* write_all: the number of bytes of data the device takes at pos before it
\* is full.
EpFit(pos, data, cap) == Min(Len(data), Max(0, cap - pos))

\* The content after the first n bytes of data were stored at pos; a hole
\* between the old end and pos reads as zeros.
EpStore(d, pos, data, n) ==
    IF n = 0 THEN d
    ELSE [p \in 1 .. Max(Len(d), pos + n) |->
            IF p > pos /\ p <= pos + n THEN data[p - pos]
            ELSE IF p <= Len(d) THEN d[p]
            ELSE 0]

\* Bytes between the file pointer and the end of the content.
EpAvail(d, pos) == Max(0, Len(d) - pos)

\* The byte counts one File::read may return when `want` bytes are asked for.
EpReadSizes(d, pos, want) ==
    IF Min(want, EpAvail(d, pos)) = 0 THEN {0} ELSE 1 .. Min(want, EpAvail(d, pos))

\* ------------------------------------------------------------------------
\* Disktest driver (disktest.rs).  The driver runs wait_chunk to completion;
\* by C1 the chunk it gets is the next one of the stream at current_index,
\* so here the worker of that stream computes the chunk when it is asked for.
\* ------------------------------------------------------------------------
\* Disktest::UNLIMITED (u64::MAX in the program): the largest number of the model.
UNLIMITED == 2147483647
\* Capacity of a device that no write of the model fills.
NoLimit == 1000000

\* Disktest::init: DtStreamAgg::activate(seek) restarts every stream at its
\* thread offset; the generators seek there.
DrvActivate(seek) ==
    /\ act_offset' = GoodOffset(seek)
    /\ act_req' = [byte_offset |-> seek, sector_size |-> 1]
    /\ act_result' = "ok"
    /\ s_offset' = [i \in Streams |->
                      IF i < num_threads THEN ThreadOffset(seek, num_threads, i) ELSE s_offset[i]]
    /\ call_errors' = {}
    /\ current_index' = ActCurrentIndex(seek, num_threads)
    /\ w_offset' = [i \in Streams |->
                      IF i < num_threads THEN ThreadOffset(seek, num_threads, i) ELSE w_offset[i]]
    /\ w_counter' = [i \in Streams |->
                      IF i < num_threads
                      THEN GenSeek(ThreadOffset(seek, num_threads, i))
                      ELSE w_counter[i]]
    /\ w_index' = [i \in Streams |-> 0]
    /\ is_active' = [i \in Streams |-> IF i < num_threads THEN TRUE ELSE is_active[i]]
    /\ thread_join' = [i \in Streams |-> IF i < num_threads THEN TRUE ELSE thread_join[i]]
    /\ error' = [i \in Streams |-> IF i < num_threads THEN FALSE ELSE error[i]]
    /\ agg_active' = TRUE

\* The chunk wait_chunk returns next.
DrvChunk == WorkerChunkData(current_index, w_counter[current_index], invert_pattern)

\* wait_chunk has returned a chunk: the stream has advanced by one chunk and
\* current_index has moved on.
DrvAdvance ==
    /\ w_counter' = [w_counter EXCEPT ![current_index] = GenCounterAfter(@, CHUNK_FACTOR)]
    /\ w_index' = [w_index EXCEPT ![current_index] = @ + 1]
    /\ current_index' = NextIndex(current_index, num_threads)

\* The call in progress has returned.
DrvReturn(op, ok, ret, err, pos, enospc, fin) ==
    /\ hist' = Append(hist, [op |-> op, seek |-> d_seek, adj |-> d_adj, max |-> d_max,
                             ok |-> ok, ret |-> ret, err |-> err, pos |-> pos,
                             enospc |-> enospc, fin |-> fin])
    /\ dpc' = "idle"

\* Seek offsets and byte limits the driver is called with.
DrvSeeks == {0, ChunkSize, ChunkSize + 1}
DrvMaxBytes == {ChunkSize, ChunkSize + 1, 2 * ChunkSize + 1, UNLIMITED}

\* The calls of one kind that have returned.
CallsOf(op) == Len(SelectSeq(hist, LAMBDA h : h.op = op))

\* No call so far was aborted or ended with a hard I/O error: after either the
\* program exits.
DrvAlive == \A k \in 1 .. Len(hist) : hist[k].err \notin {"io", "abort", "gen"}

\* Disktest::write up to the write loop: the locals and init (activate the
\* aggregator, seek the file to the adjusted offset).
CallWrite(seek, max_bytes) ==
    /\ dpc = "idle"
    /\ CallsOf("write") < MaxWrites
    /\ CallsOf("verify") = 0
    /\ corrupted = -1
    /\ DrvAlive
    /\ abort_req => hist = <<>>
    /\ max_bytes = UNLIMITED => capacity < NoLimit
    /\ d_seek' = seek
    /\ d_max' = max_bytes
    /\ bytes_left' = max_bytes
    /\ bytes_done' = 0
    /\ DrvActivate(seek)
    /\ d_adj' = GoodOffset(seek)
    /\ f_open' = TRUE
    /\ fpos' = FileSeek(fpos, GoodOffset(seek))
    /\ saw_enospc' = FALSE
    /\ finalized' = 0
    /\ last_write' = NoWrite
    /\ dpc' = "write"
    /\ UNCHANGED compared
    /\ UNCHANGED <<fnVars, bufVars, roundVars, cfgVars, abort, level, sleeping, rx, wpc, w_cur_level,
                   mainRest, disk, capacity,
                   abort_req, buffer, read_count, read_len, hist, corrupted>>

\* The out-of-space branch of the write loop ends the write with success when
\* max_bytes is UNLIMITED (a variant that ignores max_bytes is EnospcIsSuccessAlways).
EnospcIsSuccessAlways(max_bytes) == TRUE
EnospcIsSuccess(max_bytes) == max_bytes = UNLIMITED

\* The length of one endpoint write of the write loop (a variant that always
\* writes the whole chunk is WriteLenFull).
WriteLenFull(chunk_size, left) == chunk_size
WriteLen(chunk_size, left) == Min(chunk_size, left)

\* One iteration of the loop of write_destructive_mode: wait_chunk, write the
\* chunk, account for the bytes, finalize when done, check the abort flag.
\* io_error: the endpoint fails this write with an error other than ENOSPC.
WriteIter(io_error) ==
    /\ dpc = "write"
    /\ ~error[current_index]
    /\ UNCHANGED compared
    /\ io_error => hist = <<>>
    /\ LET chunk == DrvChunk
           write_len == WriteLen(ChunkSize, bytes_left)
           data == SubSeq(chunk, 1, write_len)
           fit == IF io_error THEN 0 ELSE EpFit(fpos, data, capacity)
           written == bytes_done + write_len
       IN  /\ DrvAdvance
           /\ last_write' = [pos |-> fpos, before |-> bytes_done, data |-> data]
           /\ disk' = EpStore(disk, fpos, data, fit)
           /\ fpos' = fpos + fit
           /\ IF io_error
              THEN \* write error: write_finalize(false), return the error
                   /\ DrvReturn("write", FALSE, 0, "io", -1, saw_enospc, finalized + 1)
                   /\ finalized' = finalized + 1
                   /\ f_open' = FALSE
                   /\ UNCHANGED <<bytes_done, bytes_left, saw_enospc>>
              ELSE IF fit < write_len
              THEN \* ENOSPC
                   /\ saw_enospc' = TRUE
                   /\ finalized' = finalized + 1
                   /\ f_open' = FALSE
                   /\ IF EnospcIsSuccess(d_max)
                      THEN DrvReturn("write", TRUE, bytes_done, "", -1, TRUE, finalized + 1)
                      ELSE DrvReturn("write", FALSE, 0, "enospc", -1, TRUE, finalized + 1)
                   /\ UNCHANGED <<bytes_done, bytes_left>>
              ELSE /\ bytes_done' = written
                   /\ bytes_left' = bytes_left - write_len
                   /\ UNCHANGED saw_enospc
                   /\ IF bytes_left - write_len = 0
                      THEN /\ finalized' = finalized + 1
                           /\ f_open' = FALSE
                           /\ DrvReturn("write", TRUE, written, "", -1, saw_enospc, finalized + 1)
                      ELSE IF abort_req
                      THEN /\ finalized' = finalized + 1
                           /\ f_open' = FALSE
                           /\ DrvReturn("write", FALSE, 0, "abort", -1, saw_enospc, finalized + 1)
                      ELSE UNCHANGED <<finalized, f_open, hist, dpc>>
    /\ UNCHANGED <<fnVars, bufVars, roundVars, cfgVars, streamVars, wpc, w_offset, w_cur_level, agg_active, mainVars,
                   capacity, abort_req, d_seek, d_adj, d_max, buffer, read_count,
                   read_len, corrupted>>

\* thread_worker: generator.seek has failed; the worker sets the error flag of
\* its stream and ends.  NextRandom::seek is an input here: it fails for a
\* worker that has not yet delivered a chunk.
ThreadSeekError(i) ==
    /\ dpc = "write"
    /\ hist = <<>>
    /\ i < num_threads
    /\ ~error[i]
    /\ w_index[i] = 0
    /\ error' = [error EXCEPT ![i] = TRUE]
    /\ UNCHANGED <<fnVars, bufVars, roundVars, cfgVars, is_active, thread_join, abort, level,
                   sleeping, rx, workerVars, aggVars, mainVars, drvVars>>

\* The iteration of the write loop in which wait_chunk returns an error (the
\* error flag of the current stream is set): `?` returns the error at once;
\* the DisktestFile is dropped on the way out, and its Drop closes the file.
WriteIterChunkError ==
    /\ dpc = "write"
    /\ error[current_index]
    /\ DrvReturn("write", FALSE, 0, "gen", -1, saw_enospc, finalized)
    /\ f_open' = FALSE
    /\ UNCHANGED <<fnVars, bufVars, roundVars, cfgVars, streamVars, workerVars, aggVars, mainVars,
                   disk, capacity, fpos, abort_req, d_seek, d_adj, d_max, bytes_left,
                   bytes_done, buffer, read_count, read_len, saw_enospc, finalized,
                   last_write, corrupted, compared>>

\* Disktest::verify up to the verify loop: the locals and init.
CallVerify(seek, max_bytes) ==
    /\ dpc = "idle"
    /\ CallsOf("verify") < MaxVerifies
    /\ DrvAlive
    /\ abort_req => hist = <<>>
    /\ d_seek' = seek
    /\ d_max' = max_bytes
    /\ bytes_left' = max_bytes
    /\ bytes_done' = 0
    /\ buffer' = [p \in 1 .. ChunkSize |-> 0]
    /\ read_count' = 0
    /\ read_len' = Min(ChunkSize, max_bytes)
    /\ DrvActivate(seek)
    /\ d_adj' = GoodOffset(seek)
    /\ f_open' = TRUE
    /\ fpos' = FileSeek(fpos, GoodOffset(seek))
    /\ saw_enospc' = FALSE
    /\ finalized' = 0
    /\ last_write' = NoWrite
    /\ dpc' = "verify"
    /\ compared' = <<>>
    /\ UNCHANGED <<fnVars, bufVars, roundVars, cfgVars, abort, level, sleeping, rx, wpc, w_cur_level,
                   mainRest, disk, capacity,
                   abort_req, hist, corrupted>>

\* The read buffer is compared when it is full or when the end of the device
\* was reached with bytes in it (a variant that compares full buffers only is
\* ReadCompleteFullOnly, one that compares after every read that gave bytes
\* is ReadCompleteAny).
ReadCompleteFullOnly(rc, rlen, n) == rc = rlen
ReadCompleteAny(rc, rlen, n) == rc > 0
ReadComplete(rc, rlen, n) == rc = rlen \/ (rc > 0 /\ n = 0)

\* Index (from 0) of the first of the first rc bytes in which buf and chunk differ.
FirstMismatch(buf, chunk, rc) ==
    CHOOSE i \in 0 .. (rc - 1) :
        /\ buf[i + 1] # chunk[i + 1]
        /\ \A j \in 0 .. (i - 1) : buf[j + 1] = chunk[j + 1]

\* verify_failed: the position reported in the "Data MISMATCH" error.
VerifyFailedPos(bytes_read, buf, chunk, rc) == bytes_read + FirstMismatch(buf, chunk, rc)

\* One iteration of the loop of verify_destructive_mode: one File::read of n
\* bytes into the buffer; when the buffer is complete, wait_chunk and compare.
VerifyIter(n) ==
    /\ dpc = "verify"
    /\ n \in EpReadSizes(disk, fpos, read_len - read_count)
    /\ LET buf == [p \in 1 .. ChunkSize |->
                     IF p > read_count /\ p <= read_count + n
                     THEN disk[fpos + (p - read_count)]
                     ELSE buffer[p]]
           rc == read_count + n
           chunk == DrvChunk
           br == bytes_done + rc
           bl == bytes_left - rc
       IN  /\ buffer' = buf
           /\ fpos' = fpos + n
           /\ IF ReadComplete(rc, read_len, n)
              THEN /\ DrvAdvance
                   /\ compared' = Append(compared,
                                         [pos |-> (fpos + n) - rc, rc |-> rc,
                                          buf |-> SubSeq(buf, 1, rc), chunk |-> chunk])
                   /\ IF SubSeq(buf, 1, rc) # SubSeq(chunk, 1, rc)
                      THEN \* verify_failed
                           /\ finalized' = finalized + 1
                           /\ f_open' = FALSE
                           /\ DrvReturn("verify", FALSE, 0, "mismatch",
                                        VerifyFailedPos(bytes_done, buf, chunk, rc),
                                        FALSE, finalized + 1)
                           /\ UNCHANGED <<bytes_done, bytes_left, read_count, read_len>>
                      ELSE /\ bytes_done' = br
                           /\ bytes_left' = bl
                           /\ IF bl = 0 \/ n = 0
                              THEN \* all bytes verified, or end of the device
                                   /\ finalized' = finalized + 1
                                   /\ f_open' = FALSE
                                   /\ DrvReturn("verify", TRUE, br, "", -1, FALSE, finalized + 1)
                                   /\ read_count' = IF bl = 0 THEN rc ELSE 0
                                   /\ read_len' = IF bl = 0 THEN read_len ELSE Min(ChunkSize, bl)
                              ELSE /\ read_count' = 0
                                   /\ read_len' = Min(ChunkSize, bl)
                                   /\ IF abort_req
                                      THEN /\ finalized' = finalized + 1
                                           /\ f_open' = FALSE
                                           /\ DrvReturn("verify", FALSE, 0, "abort", -1,
                                                        FALSE, finalized + 1)
                                      ELSE UNCHANGED <<finalized, f_open, hist, dpc>>
              ELSE /\ read_count' = rc
                   /\ UNCHANGED <<w_counter, w_index, current_index, bytes_done,
                                  bytes_left, read_len, compared>>
                   /\ IF n = 0
                      THEN \* end of the device with an empty buffer
                           /\ finalized' = finalized + 1
                           /\ f_open' = FALSE
                           /\ DrvReturn("verify", TRUE, bytes_done, "", -1, FALSE, finalized + 1)
                      ELSE IF abort_req
                      THEN /\ finalized' = finalized + 1
                           /\ f_open' = FALSE
                           /\ DrvReturn("verify", FALSE, 0, "abort", -1, FALSE, finalized + 1)
                      ELSE UNCHANGED <<finalized, f_open, hist, dpc>>
    /\ UNCHANGED <<fnVars, bufVars, roundVars, cfgVars, streamVars, wpc, w_offset, w_cur_level, agg_active, mainVars,
                   disk, capacity, abort_req, d_seek, d_adj, d_max, saw_enospc,
                   last_write, corrupted>>

\* A byte of the device changes behind the driver's back, between two calls.
Corrupt(pos) ==
    /\ dpc = "idle"
    /\ corrupted = -1
    /\ Len(hist) = 1 /\ hist[1].op = "write" /\ hist[1].ok
    /\ pos < Len(disk)
    /\ disk' = [disk EXCEPT ![pos + 1] = (@ + 1) % 256]
    /\ corrupted' = pos
    /\ UNCHANGED <<fnVars, bufVars, roundVars, cfgVars, streamVars, workerVars, aggVars, mainVars, capacity, fpos,
                   f_open, abort_req, dpc, d_seek, d_adj, d_max, bytes_left, bytes_done,
                   buffer, read_count, read_len, saw_enospc, finalized, last_write, hist,
                   compared>>

\* The signal handler sets the abort flag.
SetAbort ==
    /\ ~abort_req
    /\ hist = <<>>
    /\ abort_req' = TRUE
    /\ UNCHANGED <<fnVars, bufVars, roundVars, cfgVars, streamVars, workerVars, aggVars, mainVars, epVars, dpc,
                   d_seek, d_adj, d_max, bytes_left, bytes_done, buffer, read_count,
                   read_len, saw_enospc, finalized, last_write, hist, corrupted, compared>>

\* Capacities of the devices under test, and file pointers before the first call.
DrvCapacities == {2 * ChunkSize + 1, 3 * ChunkSize, NoLimit}
DrvFilePointers == {0, 3}

\* The driver with its aggregator and an empty endpoint.
InitDrv ==
    /\ InitStreams
    /\ InitDriver
    /\ InitNoCalls
    /\ InitNoMain
    /\ disk = <<>>
    /\ capacity \in DrvCapacities
    /\ fpos \in DrvFilePointers
    /\ f_open = TRUE

NextDrv ==
    \/ \E seek \in DrvSeeks, max_bytes \in DrvMaxBytes : CallWrite(seek, max_bytes)
    \/ \E io_error \in BOOLEAN : WriteIter(io_error)
    \/ \E i \in Streams : ThreadSeekError(i)
    \/ WriteIterChunkError
    \/ \E seek \in DrvSeeks, max_bytes \in DrvMaxBytes : CallVerify(seek, max_bytes)
    \/ \E n \in 0 .. ChunkSize : VerifyIter(n)
    \/ \E pos \in 0 .. (2 * ChunkSize) : Corrupt(pos)
    \/ SetAbort

SpecDrv == InitDrv /\ [][NextDrv]_vars

\* ------------------------------------------------------------------------
\* The round loop of main. The outcome of a mode is an input of the loop:
\* "ok" (the mode returned Ok), "fail" (the mode returned an error),
\* "open" (new_disktest failed to open the device, main returns the error).
\* ------------------------------------------------------------------------
Outcomes == {"ok", "fail", "open"}

\* u64::MAX of the round counters: the counters of the model wrap at U64_MAX + 1.
U64_MAX == 2 * MaxRounds + 1
WrapU64(n) == n % (U64_MAX + 1)

\* The values the parser takes for --rounds and for --start-round (a variant
\* that takes u64::MAX for --start-round too is StartRoundRangeFull).
RoundsRange == 0 .. U64_MAX
StartRoundRangeFull == 0 .. U64_MAX
StartRoundRange == 0 .. (U64_MAX - 1)

\* CliArgs::into_args: verify is the default mode; rounds = 0 stands for
\* u64::MAX rounds; rounds covers start_round.
ParseArgs(write, verify, rounds, start_round) ==
    LET all_rounds == IF rounds = 0 THEN U64_MAX ELSE rounds
    IN  [write |-> write,
         verify |-> IF ~write /\ ~verify THEN TRUE ELSE verify,
         rounds |-> IF start_round >= all_rounds
                    THEN WrapU64(start_round + 1)
                    ELSE all_rounds,
         start_round |-> start_round,
         cli_rounds |-> rounds]

\* The round_id of the Disktest instances of a round (a variant that follows
\* the round in every mode is RoundIdOfRound).
RoundIdOfRound(a, rnd) == rnd
RoundId(a, rnd) == IF a.write THEN rnd ELSE a.start_round

\* The condition of the verify mode of a round (a variant that ignores the
\* result of the write is VerifyEnabledAlways).
VerifyEnabledAlways(a, res) == a.verify
VerifyEnabled(a, res) == a.verify /\ res.ok

\* new_disktest and the mode: the mode that was started, with what came of it.
RunMode(mode, outcome) ==
    /\ runs' = Append(runs, [mode |-> mode, round |-> round,
                             round_id |-> RoundId(args, round), outcome |-> outcome])
    /\ IF outcome = "open"
       THEN \* new_disktest(..)? returns the error from main
            /\ result' = [ok |-> FALSE, mode |-> mode, round |-> round, err |-> outcome]
            /\ main_pc' = "returned"
       ELSE /\ result' = IF outcome = "ok"
                         THEN OkResult
                         ELSE [ok |-> FALSE, mode |-> mode, round |-> round, err |-> outcome]
            /\ main_pc' = IF mode = "write" THEN "verify" ELSE "break"

\* for round in args.start_round..args.rounds; result = Ok(()).
MainFor ==
    /\ main_pc = "for"
    /\ IF round < args.rounds
       THEN /\ result' = OkResult
            /\ main_pc' = "write"
       ELSE /\ main_pc' = "exit"
            /\ UNCHANGED result
    /\ UNCHANGED <<fnVars, bufVars, progVars, args, round, runs>>

\* Run write-mode, if requested.
MainWrite(outcome) ==
    /\ main_pc = "write"
    /\ IF args.write
       THEN RunMode("write", outcome)
       ELSE /\ main_pc' = "verify"
            /\ UNCHANGED <<result, runs>>
    /\ UNCHANGED <<fnVars, bufVars, progVars, args, round>>

\* Run verify-mode, if requested.
MainVerify(outcome) ==
    /\ main_pc = "verify"
    /\ IF VerifyEnabled(args, result)
       THEN RunMode("verify", outcome)
       ELSE /\ main_pc' = "break"
            /\ UNCHANGED <<result, runs>>
    /\ UNCHANGED <<fnVars, bufVars, progVars, args, round>>

\* if result.is_err() { break; }, else the next round.
MainBreak ==
    /\ main_pc = "break"
    /\ IF ~result.ok
       THEN /\ main_pc' = "exit"
            /\ UNCHANGED round
       ELSE /\ round' = round + 1
            /\ main_pc' = "for"
    /\ UNCHANGED <<fnVars, bufVars, progVars, args, result, runs>>

\* The end of main: return result.
MainExit ==
    /\ main_pc = "exit"
    /\ main_pc' = "returned"
    /\ UNCHANGED <<fnVars, bufVars, progVars, args, round, result, runs>>

\* main after parse_args, for every combination of the arguments.
InitMain ==
    /\ InitStreams
    /\ InitDriver
    /\ InitNoCalls
    /\ disk = <<>>
    /\ capacity = 0
    /\ fpos = 0
    /\ f_open = FALSE
    /\ \E write \in BOOLEAN, verify \in BOOLEAN,
          rounds \in RoundsRange, start_round \in StartRoundRange :
            args = ParseArgs(write, verify, rounds, start_round)
    /\ round = args.start_round
    /\ result = OkResult
    /\ main_pc = "for"
    /\ runs = <<>>

NextMain ==
    \/ MainFor
    \/ \E outcome \in Outcomes : MainWrite(outcome)
    \/ \E outcome \in Outcomes : MainVerify(outcome)
    \/ MainBreak
    \/ MainExit

SpecMain == InitMain /\ [][NextMain]_vars

\* ------------------------------------------------------------------------
\* Key derivation (kdf.rs). Byte strings are sequences of numbers 0 .. 255.
\* SHA-512 and PBKDF2 are taken as functions that keep their arguments
\* apart: the digest is the tagged input.
\* ------------------------------------------------------------------------
\* n.to_le_bytes() of an integer of `width` bytes.
RECURSIVE LeBytes(_, _)
LeBytes(n, width) ==
    IF width = 0 THEN <<>> ELSE <<n % 256>> \o LeBytes(n \div 256, width - 1)

\* b"R"
ROUND_TAG == 82

\* What kdf appends to the key for the round (a variant that tags every
\* round, round 0 too, is RoundSuffixAlways).
RoundSuffixAlways(round_id) == <<ROUND_TAG>> \o LeBytes(round_id, 8)
RoundSuffix(round_id) ==
    IF round_id > 0 THEN <<ROUND_TAG>> \o LeBytes(round_id, 8) ELSE <<>>

\* kdf: the local `key`, the password of PBKDF2.
KdfPassword(seed, thread_id, round_id) ==
    seed \o LeBytes(thread_id, 4) \o RoundSuffix(round_id)

\* derive_salt: SHA-512 of "disktest salt" and the key.
derive_salt(key) == <<"sha512", "disktest salt", key>>

\* kdf: PBKDF2-HMAC-SHA512 of the password with the salt derive_salt gives.
KdfCall(seed, thread_id, round_id) ==
    LET key == KdfPassword(seed, thread_id, round_id)
    IN  [password |-> key,
         salt |-> derive_salt(key),
         dk |-> <<"pbkdf2", derive_salt(key), key>>]

\* The seeds: short ones, and those that begin like the password of a short one.
ShortSeeds == {<<1>>, <<1, 0>>}
KdfThreads == 0 .. MaxKdfThread
KdfRounds == 0 .. MaxKdfRound
Prefixes(q) == {SubSeq(q, 1, n) : n \in 1 .. Len(q)}
KdfSeeds ==
    UNION {Prefixes(KdfPassword(s, t, r)) : s \in ShortSeeds, t \in KdfThreads, r \in KdfRounds}
KdfInputs ==
    {[seed |-> s, thread_id |-> t, round_id |-> r] :
        s \in KdfSeeds, t \in KdfThreads, r \in KdfRounds}

\* kdf is called with the j-th of the two triples.
KdfDerive(j) ==
    /\ kdf_out[j] = NoCall
    /\ kdf_out' = [kdf_out EXCEPT ![j] =
                     KdfCall(kdf_in[j].seed, kdf_in[j].thread_id, kdf_in[j].round_id)]
    /\ UNCHANGED <<progVars, roundVars, bufVars, kdf_in, genVars, rioVars, extVars>>

InitKdf ==
    /\ InitStreams
    /\ InitDriver
    /\ InitNoMain
    /\ num_threads = 1
    /\ ~invert_pattern
    /\ disk = <<>>
    /\ capacity = 0
    /\ fpos = 0
    /\ f_open = FALSE
    /\ kdf_in \in {<<a, b>> : a \in KdfInputs, b \in KdfInputs}
    /\ kdf_out = <<NoCall, NoCall>>
    /\ g_key = 0
    /\ g_counter = 0
    /\ g_hist = <<>>
    /\ InitNoCache
    /\ InitNoLife
    /\ rio_version = ""
    /\ rio_write_mode = FALSE
    /\ rio_disk_size = 0
    /\ rio_cur_offset = 0
    /\ rio_calls = 0
    /\ rio_last = NoRawCall

NextKdf == \E j \in 1 .. 2 : KdfDerive(j)

SpecKdf == InitKdf /\ [][NextKdf]_vars

\* ------------------------------------------------------------------------
\* One generator on its own: calls of next and seek in any order.
\* ------------------------------------------------------------------------
\* NextRandom::next(buf, count).
GenCallNext(count) ==
    /\ Len(g_hist) < MaxGenOps
    /\ g_hist' = Append(g_hist, [op |-> "next", arg |-> count, ok |-> TRUE,
                                 before |-> g_counter,
                                 data |-> GenNext(g_key, g_counter, count)])
    /\ g_counter' = GenCounterAfter(g_counter, count)
    /\ UNCHANGED <<progVars, roundVars, bufVars, kdfVars, g_key, rioVars, extVars>>

\* NextRandom::seek(byte_offset): an error when the offset is not seekable.
GenCallSeek(byte_offset) ==
    /\ Len(g_hist) < MaxGenOps
    /\ g_hist' = Append(g_hist, [op |-> "seek", arg |-> byte_offset,
                                 before |-> g_counter,
                                 ok |-> GenSeek(byte_offset) >= 0, data |-> <<>>])
    /\ g_counter' = IF GenSeek(byte_offset) >= 0 THEN GenSeek(byte_offset) ELSE g_counter
    /\ UNCHANGED <<progVars, roundVars, bufVars, kdfVars, g_key, rioVars, extVars>>

\* GeneratorCrc::new(seed) for the seeds of the tests.
InitGen ==
    /\ InitStreams
    /\ InitDriver
    /\ InitNoMain
    /\ num_threads = 1
    /\ ~invert_pattern
    /\ disk = <<>>
    /\ capacity = 0
    /\ fpos = 0
    /\ f_open = FALSE
    /\ kdf_in = <<>>
    /\ kdf_out = <<>>
    /\ g_key \in {SEED, SEED + 1}
    /\ g_counter = 0
    /\ g_hist = <<>>
    /\ InitNoCache
    /\ InitNoLife
    /\ rio_version = ""
    /\ rio_write_mode = FALSE
    /\ rio_disk_size = 0
    /\ rio_cur_offset = 0
    /\ rio_calls = 0
    /\ rio_last = NoRawCall

NextGen ==
    \/ \E count \in 1 .. CHUNK_FACTOR : GenCallNext(count)
    \/ \E byte_offset \in 0 .. (MaxSeekBlocks * BASE_SIZE) : GenCallSeek(byte_offset)

SpecGen == InitGen /\ [][NextGen]_vars

\* ------------------------------------------------------------------------
\* The write of the Windows raw I/O backend. What WriteFile does is an input:
\* ok (its return value is not 0), write_count, and the code GetLastError
\* gives afterwards.
\* ------------------------------------------------------------------------
ErrorCodes == {"ERROR_SUCCESS", "ERROR_DISK_FULL", "ERROR_IO_DEVICE"}

\* A result of write: RawIoResult::Ok(n), RawIoResult::Enospc or Err.
RawOk(n) == [result |-> "Ok", n |-> n]
RawEnospc == [result |-> "Enospc", n |-> 0]
RawErr == [result |-> "Err", n |-> 0]

\* RawIoWindows::write (rawio/windows.rs) after WriteFile: cur_offset is the
\* offset after write_count was added.
WindowsWriteResult(ok, write_count, code, cur_offset, disk_size) ==
    IF ~ok
    THEN IF cur_offset >= disk_size
         THEN IF write_count = 0 THEN RawEnospc ELSE RawOk(write_count)
         ELSE IF code = "ERROR_DISK_FULL" THEN RawEnospc ELSE RawErr
    ELSE RawOk(write_count)

\* RawIoOs::write (rawio.rs, windows) after WriteFile: cur_offset is the
\* offset before the call, len the clipped length.
OsWriteResult(ok, write_count, code, cur_offset, len, disk_size) ==
    IF ~ok
    THEN IF (code = "ERROR_SUCCESS" /\ cur_offset + len >= disk_size)
            \/ code = "ERROR_DISK_FULL"
         THEN RawEnospc
         ELSE RawErr
    ELSE RawOk(write_count)

RawCall(len, ok, write_count, code, res) ==
    /\ rio_calls' = rio_calls + 1
    /\ rio_last' = [len |-> len, ok |-> ok, write_count |-> write_count, code |-> code,
                    before |-> rio_cur_offset, result |-> res.result, n |-> res.n]

\* RawIoWindows::write(buffer) with a buffer of buf_len bytes.
RawIoWindowsWrite(buf_len, ok, write_count, code) ==
    /\ rio_version = "rawio/windows.rs"
    /\ rio_calls < MaxRawWrites
    /\ IF ~rio_write_mode
       THEN /\ RawCall(buf_len, FALSE, 0, "", RawErr)
            /\ UNCHANGED rio_cur_offset
       ELSE IF buf_len = 0
       THEN /\ RawCall(buf_len, TRUE, 0, "", RawOk(0))
            /\ UNCHANGED rio_cur_offset
       ELSE /\ write_count <= buf_len
            /\ ok => code = "ERROR_SUCCESS"
            /\ rio_cur_offset' = rio_cur_offset + write_count
            /\ RawCall(buf_len, ok, write_count, code,
                       WindowsWriteResult(ok, write_count, code,
                                          rio_cur_offset + write_count, rio_disk_size))
    /\ UNCHANGED <<progVars, roundVars, bufVars, kdfVars, genVars, extVars,
                   rio_version, rio_write_mode, rio_disk_size>>

\* RawIoOs::write(buffer), the Windows variant, with a buffer of buf_len bytes.
RawIoOsWrite(buf_len, ok, write_count, code) ==
    /\ rio_version = "rawio.rs"
    /\ rio_calls < MaxRawWrites
    /\ IF ~rio_write_mode
       THEN /\ RawCall(buf_len, FALSE, 0, "", RawErr)
            /\ UNCHANGED rio_cur_offset
       ELSE LET len == IF rio_cur_offset + buf_len > rio_disk_size
                       THEN rio_disk_size - rio_cur_offset
                       ELSE buf_len
            IN  /\ write_count <= len
                /\ ok => code = "ERROR_SUCCESS"
                /\ rio_cur_offset' = IF ok THEN rio_cur_offset + write_count
                                     ELSE rio_cur_offset
                /\ RawCall(len, ok, write_count, code,
                           OsWriteResult(ok, write_count, code, rio_cur_offset, len,
                                         rio_disk_size))
    /\ UNCHANGED <<progVars, roundVars, bufVars, kdfVars, genVars, extVars,
                   rio_version, rio_write_mode, rio_disk_size>>

\* The backend after open, on a disk of a known size.
InitRawIo ==
    /\ InitStreams
    /\ InitDriver
    /\ InitNoMain
    /\ num_threads = 1
    /\ ~invert_pattern
    /\ disk = <<>>
    /\ capacity = 0
    /\ fpos = 0
    /\ f_open = FALSE
    /\ kdf_in = <<>>
    /\ kdf_out = <<>>
    /\ g_key = 0
    /\ g_counter = 0
    /\ g_hist = <<>>
    /\ InitNoCache
    /\ InitNoLife
    /\ rio_version \in {"rawio/windows.rs", "rawio.rs"}
    /\ rio_write_mode \in BOOLEAN
    /\ rio_disk_size \in {MaxRawLen, MaxRawLen + 1}
    /\ rio_cur_offset = 0
    /\ rio_calls = 0
    /\ rio_last = NoRawCall

NextRawIo ==
    \/ \E buf_len \in 0 .. MaxRawLen, ok \in BOOLEAN, write_count \in 0 .. MaxRawLen,
          code \in ErrorCodes : RawIoWindowsWrite(buf_len, ok, write_count, code)
    \/ \E buf_len \in 0 .. MaxRawLen, ok \in BOOLEAN, write_count \in 0 .. MaxRawLen,
          code \in ErrorCodes : RawIoOsWrite(buf_len, ok, write_count, code)

SpecRawIo == InitRawIo /\ [][NextRawIo]_vars

\* ------------------------------------------------------------------------
\* The cycle of the chunk buffers: BufCacheCons::pull in the worker, the
\* channel of the stream, the wrapper DtStreamAgg::get_chunk returns, and
\* BufCache::push when the wrapper is dropped. A buffer is a Vec<u8> that is
\* moved from place to place; the data in it is left out here.
\* ------------------------------------------------------------------------
Range(q) == {q[k] : k \in 1 .. Len(q)}

RemoveAt(q, k) == SubSeq(q, 1, k - 1) \o SubSeq(q, k + 1, Len(q))

\* BufCacheCons::pull: the buffer try_recv takes from the channel, or a new one.
PullBuf(chan, alloc) == IF chan # <<>> THEN Head(chan) ELSE alloc + 1

\* The channel of the consumer after pull (a variant whose try_recv leaves the
\* buffer in the channel is ChanAfterPullKeep).
ChanAfterPullKeep(chan) == chan
ChanAfterPull(chan) == IF chan # <<>> THEN Tail(chan) ELSE chan

\* DtStreamAgg::activate, as far as the buffers go: every stream is stopped
\* (the worker is joined and its buffer dropped) and started again with a new
\* channel and a new cache consumer; the buffers in the old channels are dropped.
BufActivate ==
    /\ mpc = "idle" /\ dpc = "idle" /\ main_pc = "returned"
    /\ nact < MaxActivations
    /\ nact' = nact + 1
    /\ agg_active' = TRUE
    /\ current_index' = ActCurrentIndex(0, num_threads)
    /\ b_freed' = b_freed
                  \union ({b_data[i] : i \in Streams} \ {0})
                  \union (UNION {Range(b_rx[i]) : i \in Streams})
                  \union (UNION {Range(b_cache[i]) : i \in Streams})
    /\ b_data' = [i \in Streams |-> 0]
    /\ b_rx' = [i \in Streams |-> <<>>]
    /\ b_cache' = [i \in Streams |-> <<>>]
    /\ UNCHANGED <<b_alloc, b_held>>
    /\ UNCHANGED <<cfgVars, streamVars, workerVars, mpc, act_i, got, out, last_result,
                   act_offset, actVars, drvVars, roundVars, fnVars>>

\* thread_worker: let mut data = cache_cons.pull(size).
BufPull(i) ==
    /\ agg_active
    /\ i < num_threads
    /\ b_data[i] = 0
    /\ Len(b_rx[i]) < MAX_THRES
    /\ b_cache[i] = <<>> => b_alloc < MaxBufs
    /\ b_data' = [b_data EXCEPT ![i] = PullBuf(b_cache[i], b_alloc)]
    /\ b_alloc' = IF b_cache[i] = <<>> THEN b_alloc + 1 ELSE b_alloc
    /\ b_cache' = [b_cache EXCEPT ![i] = ChanAfterPull(@)]
    /\ UNCHANGED <<b_freed, b_rx, b_held>>
    /\ UNCHANGED <<progVars, roundVars, fnVars>>

\* thread_worker: tx.send(chunk).
BufSend(i) ==
    /\ b_data[i] # 0
    /\ b_rx' = [b_rx EXCEPT ![i] = Append(@, b_data[i])]
    /\ b_data' = [b_data EXCEPT ![i] = 0]
    /\ UNCHANGED <<b_alloc, b_freed, b_held, b_cache>>
    /\ UNCHANGED <<progVars, roundVars, fnVars>>

\* DtStreamAgg::get_chunk: the chunk of the current stream, in its wrapper.
BufGetChunk ==
    /\ agg_active
    /\ b_rx[current_index] # <<>>
    /\ b_rx' = [b_rx EXCEPT ![current_index] = Tail(@)]
    /\ b_held' = Append(b_held, [buf |-> Head(b_rx[current_index]),
                                 stream |-> current_index,
                                 thread_id |-> WrapperThreadId(current_index, num_threads)])
    /\ current_index' = NextIndex(current_index, num_threads)
    /\ UNCHANGED <<b_alloc, b_freed, b_data, b_cache>>
    /\ UNCHANGED <<cfgVars, streamVars, workerVars, agg_active, mainVars, drvVars, roundVars, fnVars>>

\* Drop for DtStreamAggChunk: BufCache::push to the consumer id of the wrapper.
BufDrop(k) ==
    /\ k \in 1 .. Len(b_held)
    /\ b_cache' = [b_cache EXCEPT ![DropSlot(b_held[k])] = Append(@, b_held[k].buf)]
    /\ b_held' = RemoveAt(b_held, k)
    /\ UNCHANGED <<b_alloc, b_freed, b_data, b_rx>>
    /\ UNCHANGED <<progVars, roundVars, fnVars>>

NextBuf ==
    \/ BufActivate
    \/ \E i \in Streams : BufPull(i)
    \/ \E i \in Streams : BufSend(i)
    \/ BufGetChunk
    \/ \E k \in 1 .. MaxBufs : BufDrop(k)

SpecBuf == Init /\ [][NextBuf]_vars

\* ------------------------------------------------------------------------
\* BufCache and BufCacheCons (bufcache.rs) on their own: new_consumer, push,
\* pull and the drop of a consumer, in any order.  A channel is named by the
\* number of the new_consumer call that made it.
\* ------------------------------------------------------------------------
CacheBufs == {<<1>>, <<4, 5, 6>>}

\* The pushes the channels have taken so far.
RECURSIVE PushesUpTo(_)
PushesUpTo(c) == IF c = 0 THEN 0 ELSE Len(bc_log[c]) + PushesUpTo(c - 1)

\* Vec::resize(buf_len, 0) when the length differs (a variant that leaves the
\* buffer as it is is ResizeKeep).
ResizeKeep(buf, buf_len) == buf
Resize(buf, buf_len) ==
    IF Len(buf) # buf_len
    THEN [p \in 1 .. buf_len |-> IF p <= Len(buf) THEN buf[p] ELSE 0]
    ELSE buf

\* rcv.try_recv() or, when the channel is empty, Vec::with_capacity(buf_len).
CacheTryRecv(chan) == IF chan # <<>> THEN Head(chan) ELSE <<>>

\* BufCache::new_consumer(cons_id): a new channel; its sender replaces the
\* entry of cons_id in the map.
CacheNewConsumer(id) ==
    /\ ~bc_panic
    /\ Len(bc_id) < MaxCacheCons
    /\ bc_snd' = [bc_snd EXCEPT ![id] = Len(bc_id) + 1]
    /\ bc_id' = Append(bc_id, id)
    /\ bc_alive' = Append(bc_alive, TRUE)
    /\ bc_chan' = Append(bc_chan, <<>>)
    /\ bc_log' = Append(bc_log, <<>>)
    /\ bc_taken' = Append(bc_taken, 0)
    /\ UNCHANGED <<bc_last, bc_panic>>
    /\ UNCHANGED <<progVars, roundVars, bufVars, kdfVars, genVars, rioVars, lifeVars>>

\* BufCache::push panics when the map has no entry for cons_id (a variant
\* that also panics when the consumer is gone is PushPanicsWhenGone).
PushPanicsWhenGone(snd, alive, id) == snd[id] = 0 \/ ~alive[snd[id]]
PushPanics(snd, alive, id) == snd[id] = 0

\* BufCache::push(cons_id, buf): snd.send(buf).ok(), the buffer is dropped
\* when the receiver is gone.
CachePush(id, buf) ==
    /\ ~bc_panic
    /\ PushesUpTo(Len(bc_log)) < MaxCachePushes
    /\ bc_last' = [op |-> "push", id |-> id, cons |-> bc_snd[id], len |-> 0,
                   buf |-> buf, avail |-> FALSE]
    /\ bc_panic' = PushPanics(bc_snd, bc_alive, id)
    /\ IF ~PushPanics(bc_snd, bc_alive, id) /\ bc_alive[bc_snd[id]]
       THEN /\ bc_chan' = [bc_chan EXCEPT ![bc_snd[id]] = Append(@, buf)]
            /\ bc_log' = [bc_log EXCEPT ![bc_snd[id]] = Append(@, [id |-> id, buf |-> buf])]
       ELSE UNCHANGED <<bc_chan, bc_log>>
    /\ UNCHANGED <<bc_snd, bc_id, bc_alive, bc_taken>>
    /\ UNCHANGED <<progVars, roundVars, bufVars, kdfVars, genVars, rioVars, lifeVars>>

\* BufCacheCons::pull(buf_len) on the consumer of channel c.
CachePull(c, buf_len) ==
    /\ ~bc_panic
    /\ c \in 1 .. Len(bc_id)
    /\ bc_alive[c]
    /\ bc_last' = [op |-> "pull", id |-> bc_id[c], cons |-> c, len |-> buf_len,
                   buf |-> Resize(CacheTryRecv(bc_chan[c]), buf_len),
                   avail |-> Len(bc_log[c]) > bc_taken[c]]
    /\ bc_taken' = [bc_taken EXCEPT ![c] = IF bc_chan[c] # <<>> THEN @ + 1 ELSE @]
    /\ bc_chan' = [bc_chan EXCEPT ![c] = ChanAfterPull(@)]
    /\ UNCHANGED <<bc_snd, bc_id, bc_alive, bc_log, bc_panic>>
    /\ UNCHANGED <<progVars, roundVars, bufVars, kdfVars, genVars, rioVars, lifeVars>>

\* The BufCacheCons of channel c is dropped: the receiver goes, and with it
\* the buffers still in the channel.
CacheDropConsumer(c) ==
    /\ ~bc_panic
    /\ c \in 1 .. Len(bc_id)
    /\ bc_alive[c]
    /\ bc_alive' = [bc_alive EXCEPT ![c] = FALSE]
    /\ bc_chan' = [bc_chan EXCEPT ![c] = <<>>]
    /\ UNCHANGED <<bc_snd, bc_id, bc_log, bc_taken, bc_last, bc_panic>>
    /\ UNCHANGED <<progVars, roundVars, bufVars, kdfVars, genVars, rioVars, lifeVars>>

NextCache ==
    \/ \E id \in CacheIds : CacheNewConsumer(id)
    \/ \E id \in CacheIds, buf \in CacheBufs : CachePush(id, buf)
    \/ \E c \in 1 .. MaxCacheCons, buf_len \in 0 .. MaxCacheLen : CachePull(c, buf_len)
    \/ \E c \in 1 .. MaxCacheCons : CacheDropConsumer(c)

\* BufCache::new().
InitCache == Init /\ num_threads = 1 /\ ~invert_pattern

SpecCache == InitCache /\ [][NextCache]_vars

\* ------------------------------------------------------------------------
\* The life of one DtStream (stream.rs): activate (stop, then start),
\* get_chunk and drop, called in any order by the main thread, and the worker
\* threads the stream has spawned.  A thread is named by its number, from 1.
\* ------------------------------------------------------------------------
LifeCalls == {"activate", "drop"}

\* self.thread_join.take() leaves None in the field (a variant that leaves the
\* handle there is HandleAfterTakeKeep).
HandleAfterTakeKeep(handle) == handle
HandleAfterTake(handle) == 0

\* DtStream::stop up to the join, called by activate or by Drop: clear
\* is_active, set the abort flag, take the join handle.
LifeStop(call) ==
    /\ lf_pc = "idle"
    /\ call = "activate" => Len(lf_threads) < MaxSpawns
    /\ lf_call' = call
    /\ lf_active' = FALSE
    /\ lf_abort' = TRUE
    /\ lf_joining' = lf_join
    /\ lf_join' = HandleAfterTake(lf_join)
    /\ lf_pc' = "join"
    /\ UNCHANGED <<lf_error, lf_threads, lf_last>>
    /\ UNCHANGED <<progVars, roundVars, bufVars, kdfVars, genVars, rioVars, cacheVars>>

\* The rest of DtStream::stop: join returns when the thread of the handle has
\* returned; the abort flag is cleared.  Then start, or the end of Drop.
LifeJoin ==
    /\ lf_pc = "join"
    /\ lf_joining # 0 => lf_threads[lf_joining] = "done"
    /\ lf_abort' = FALSE
    /\ lf_joining' = 0
    /\ lf_pc' = IF lf_call = "activate" THEN "start" ELSE "dropped"
    /\ UNCHANGED <<lf_call, lf_active, lf_join, lf_error, lf_threads, lf_last>>
    /\ UNCHANGED <<progVars, roundVars, bufVars, kdfVars, genVars, rioVars, cacheVars>>

\* assert!(!self.is_active); assert!(self.thread_join.is_none());
StartAsserts(active, handle) == ~active /\ handle = 0

\* DtStream::start: the assertions, then the flags are reset and the worker
\* thread is spawned.
LifeStart ==
    /\ lf_pc = "start"
    /\ IF StartAsserts(lf_active, lf_join)
       THEN /\ lf_abort' = FALSE
            /\ lf_error' = FALSE
            /\ lf_threads' = Append(lf_threads, "seek")
            /\ lf_join' = Len(lf_threads) + 1
            /\ lf_active' = TRUE
            /\ lf_call' = ""
            /\ lf_pc' = "idle"
       ELSE /\ lf_pc' = "panic"
            /\ UNCHANGED <<lf_call, lf_active, lf_join, lf_abort, lf_error, lf_threads>>
    /\ UNCHANGED <<lf_joining, lf_last>>
    /\ UNCHANGED <<progVars, roundVars, bufVars, kdfVars, genVars, rioVars, cacheVars>>

\* DtStream::get_chunk: an error when the stream is not active or its worker
\* has ended with an error, else what try_recv gives.
LifeGetChunk ==
    /\ lf_pc = "idle"
    /\ lf_last' = IF ~lf_active THEN "not active"
                  ELSE IF lf_error THEN "thread error"
                  ELSE "polled"
    /\ UNCHANGED <<lf_pc, lf_call, lf_active, lf_join, lf_joining, lf_abort, lf_error,
                   lf_threads>>
    /\ UNCHANGED <<progVars, roundVars, bufVars, kdfVars, genVars, rioVars, cacheVars>>

\* thread_worker of thread t: the seek of the generator; when it fails the
\* thread sets the error flag and returns.
LifeWorkerSeek(t, ok) ==
    /\ t \in 1 .. Len(lf_threads)
    /\ lf_threads[t] = "seek"
    /\ lf_threads' = [lf_threads EXCEPT ![t] = IF ok THEN "loop" ELSE "done"]
    /\ lf_error' = IF ok THEN lf_error ELSE TRUE
    /\ UNCHANGED <<lf_pc, lf_call, lf_active, lf_join, lf_joining, lf_abort, lf_last>>
    /\ UNCHANGED <<progVars, roundVars, bufVars, kdfVars, genVars, rioVars, cacheVars>>

\* thread_worker of thread t: while !abort.load().
LifeWorkerLoop(t) ==
    /\ t \in 1 .. Len(lf_threads)
    /\ lf_threads[t] = "loop"
    /\ lf_threads' = [lf_threads EXCEPT ![t] = IF LoopExit(lf_abort) THEN "done" ELSE "work"]
    /\ UNCHANGED <<lf_pc, lf_call, lf_active, lf_join, lf_joining, lf_abort, lf_error, lf_last>>
    /\ UNCHANGED <<progVars, roundVars, bufVars, kdfVars, genVars, rioVars, cacheVars>>

\* thread_worker of thread t: one pass through the body of the loop.
LifeWorkerWork(t) ==
    /\ t \in 1 .. Len(lf_threads)
    /\ lf_threads[t] = "work"
    /\ lf_threads' = [lf_threads EXCEPT ![t] = "loop"]
    /\ UNCHANGED <<lf_pc, lf_call, lf_active, lf_join, lf_joining, lf_abort, lf_error, lf_last>>
    /\ UNCHANGED <<progVars, roundVars, bufVars, kdfVars, genVars, rioVars, cacheVars>>

NextLife ==
    \/ \E call \in LifeCalls : LifeStop(call)
    \/ LifeJoin
    \/ LifeStart
    \/ LifeGetChunk
    \/ \E t \in 1 .. MaxSpawns, ok \in BOOLEAN : LifeWorkerSeek(t, ok)
    \/ \E t \in 1 .. MaxSpawns : LifeWorkerLoop(t)
    \/ \E t \in 1 .. MaxSpawns : LifeWorkerWork(t)

\* DtStream::new.
InitLife == Init /\ num_threads = 1 /\ ~invert_pattern

SpecLife == InitLife /\ [][NextLife]_vars

\* ------------------------------------------------------------------------
\* Properties of the streams and the aggregator (specification Spec).
\* ------------------------------------------------------------------------
\* Global chunk index of the last activation.
ActChunk == act_offset \div ChunkSize

\* The chunks wait_chunk returned that came from stream i, in order.
ReceivedFrom(i) == SelectSeq(out, LAMBDA e : e.stream = i)

\* C1: in every interleaving of the workers and the consumer, the chunk
\* wait_chunk returns at position k after an activation comes from stream
\* (c + k) mod T and carries the per-stream index k div T: which chunk is
\* returned depends on the position only, never on the scheduling.
C1_DeterministicOrder ==
    \A k \in 1 .. Len(out) :
        /\ out[k].stream = (ActChunk + (k - 1)) % num_threads
        /\ out[k].index = (k - 1) \div num_threads

\* C1 witness: two streams, three chunks returned in the second activation,
\* and the worker of the next stream has already run ahead of the consumer.
C1_Witness ==
    /\ num_threads = 2
    /\ nact = 2
    /\ Len(out) = 3
    /\ mpc = "idle"
    /\ rx[current_index] # <<>>

\* The chunk with global index g of the keystream of n streams.
KeystreamChunk(n, g, invert) ==
    LET raw == GenNext(kdf(SEED, g % n), (g \div n) * CHUNK_FACTOR, CHUNK_FACTOR)
    IN  IF invert THEN InvertData(raw) ELSE raw

\* C2: after an activation at chunk c with T streams, the k-th returned chunk
\* holds the data of per-stream iteration (c + k) div T of stream
\* (c + k) mod T, which is the chunk at position c + k from offset 0.
C2_OffsetActivation ==
    \A k \in 1 .. Len(out) :
        out[k].data = KeystreamChunk(num_threads, ActChunk + (k - 1), invert_pattern)

\* C2 witness: an activation at an odd chunk with two streams (the streams
\* are staggered) has returned chunks of both streams.
C2_Witness ==
    /\ num_threads = 2
    /\ ActChunk % 2 = 1
    /\ Len(out) >= 3

\* C9: the channel of a stream never holds more than MAX_THRES chunks.
C9_QueueBounded ==
    \A i \in Streams : Len(rx[i]) <= MAX_THRES

\* C9 witness: a channel holds MAX_THRES chunks, the worker has paused at the
\* full channel, and the consumer has received chunks before.
C9_Witness ==
    \E i \in Streams : Len(rx[i]) = MAX_THRES /\ wpc[i] = "wait" /\ Len(out) >= 2

\* C10: within one activation the chunks received from a stream carry the
\* indices 0, 1, 2, ... and the chunk with index j holds the j-th chunk of the
\* stream's keystream after the offset the stream was activated at.
C10_StreamOrder ==
    \A i \in 0 .. (num_threads - 1) :
        \A j \in 1 .. Len(ReceivedFrom(i)) :
            /\ ReceivedFrom(i)[j].index = j - 1
            /\ ReceivedFrom(i)[j].data =
                   WorkerChunkData(i, (w_offset[i] \div BASE_SIZE) + (j - 1) * CHUNK_FACTOR,
                                   invert_pattern)

\* C10 witness: a stream activated at an offset above 0 has delivered six
\* chunks, after its worker had paused at a full channel.
C10_Witness ==
    /\ num_threads = 1
    /\ w_offset[0] > 0
    /\ Len(out) >= 6
    /\ w_index[0] >= MAX_THRES + 1

\* A wait_chunk call is in progress on a stream without error whose worker
\* still has chunks to deliver within the production bound of the model.
WaitChunkPending ==
    /\ mpc = "get"
    /\ is_active[current_index]
    /\ ~error[current_index]
    /\ Len(ReceivedFrom(current_index)) < max_index

\* wait_chunk has returned a chunk.
WaitChunkReturned == mpc = "idle" /\ last_result = "ok"

\* C11: under fair scheduling of the workers, with no stream error and no
\* stop request, every wait_chunk call eventually returns a chunk, also when
\* the worker had paused at a full queue.
C11_WaitChunkReturns == WaitChunkPending ~> WaitChunkReturned

\* C11 witness: wait_chunk was called on an empty queue while the worker, which
\* had filled the queue before, is still in the wait branch.
C11_Witness ==
    /\ WaitChunkPending
    /\ rx[current_index] = <<>>
    /\ wpc[current_index] = "wait"
    /\ w_index[current_index] >= MAX_THRES

\* Chunk index q of the offset q * chunk_size + e the last activate was called with.
ReqChunk == act_req.byte_offset \div ChunkSize

\* C12: an activation at offset q * chunk_size + e, 0 < e < chunk_size, puts
\* the streams where an activation at q * chunk_size puts them, and returns the
\* offset q * chunk_size (rounded down) to the caller.
C12_OffsetAdjustment ==
    (act_result = "ok" /\ mpc = "idle") =>
        /\ act_offset = ReqChunk * ChunkSize
        /\ \A i \in 0 .. (num_threads - 1) :
               /\ s_offset[i] = ThreadOffset(ReqChunk * ChunkSize, num_threads, i)
               /\ w_offset[i] = s_offset[i]
        /\ out = <<>> => current_index = ActCurrentIndex(ReqChunk * ChunkSize, num_threads)
        /\ \A k \in 1 .. Len(out) :
               out[k].data = KeystreamChunk(num_threads, ReqChunk + (k - 1), invert_pattern)

\* C12 witness: two streams were activated at an offset inside an odd chunk and
\* have returned chunks of both streams.
C12_Witness ==
    /\ num_threads = 2
    /\ act_result = "ok"
    /\ mpc = "idle"
    /\ act_req.byte_offset % ChunkSize # 0
    /\ ReqChunk % 2 = 1
    /\ Len(out) >= 2

\* A step in which activate returns the geometry error.
ActivateFailed == nact' # nact /\ act_result' = "err"

\* C13: activate fails exactly when the chunk size is not a whole multiple of
\* the sector size, and the failing call leaves current_index, is_active and
\* every stream and worker as they were.
C13_GeometryMismatch ==
    /\ [](act_result = "err" <=> (nact > 0 /\ ChunkSize % act_req.sector_size # 0))
    /\ [][ActivateFailed =>
            UNCHANGED <<current_index, agg_active, streamVars, workerVars, s_offset,
                        act_offset, out>>]_vars

\* C13 witness: activate has failed on an active aggregator of two streams that
\* had returned a chunk.
C13_Witness ==
    /\ num_threads = 2
    /\ act_result = "err"
    /\ agg_active
    /\ is_active[0] /\ is_active[1]
    /\ Len(out) >= 1

\* C20: dropping the wrapper of a chunk returned by wait_chunk returns the
\* buffer to the cache slot of the stream that produced the chunk.
C20_DropToOriginSlot ==
    \A k \in 1 .. Len(out) : DropSlot(out[k]) = out[k].stream

\* Bitwise XOR of two bytes.
RECURSIVE XorBits(_, _, _)
XorBits(a, b, bits) ==
    IF bits = 0 THEN 0
    ELSE (((a % 2) + (b % 2)) % 2) + 2 * XorBits(a \div 2, b \div 2, bits - 1)
Xor8(a, b) == XorBits(a, b, 8)

\* C25: with invert_pattern set every byte of every returned chunk is the byte
\* of the stream without inversion at the same position XOR 0xFF, the chunks
\* come from the same streams with the same indices, and inverting the
\* returned chunk again gives the chunk of the stream without inversion.
C25_InvertInvolution ==
    invert_pattern =>
        \A k \in 1 .. Len(out) :
            LET plain == KeystreamChunk(num_threads, ActChunk + (k - 1), FALSE)
            IN  /\ Len(out[k].data) = Len(plain)
                /\ \A p \in 1 .. Len(plain) : out[k].data[p] = Xor8(plain[p], 255)
                /\ [p \in 1 .. Len(plain) |-> Xor8(out[k].data[p], 255)] = plain
                /\ out[k].stream = (ActChunk + (k - 1)) % num_threads
                /\ out[k].index = (k - 1) \div num_threads
C25_Witness ==
    /\ invert_pattern
    /\ num_threads = 2
    /\ Len(out) = 2
    /\ ActChunk = 1
    /\ out[1].data # KeystreamChunk(num_threads, ActChunk, FALSE)

\* C27: a worker that has seen level >= MAX_THRES and has stopped producing
\* stays in its wait until the consumer has brought level down to LO_THRES or
\* less and has signalled the wake (or stop has set the abort flag): it does
\* not leave the wait with a level that lets it produce while level is between
\* LO_THRES + 1 and MAX_THRES - 1.
C27_ResumeAtLowWatermark ==
    [][\A i \in Streams :
          (wpc[i] = "wait" /\ wpc'[i] = "loop" /\ w_cur_level'[i] < MAX_THRES)
              => (level[i] <= LO_THRES \/ abort[i])]_vars

\* Stream i has been activated again by the activation in progress or last done.
Reactivated(i) ==
    /\ nact >= 2
    /\ act_result # "err"
    /\ i < num_threads
    /\ mpc \in {"stop", "join"} => i < act_i

\* C29: after activate on a running stream the first chunk returned has index
\* 0 and is computed from the new offset, and no chunk of the previous
\* activation is returned any more: every chunk in the channel of the stream
\* and every chunk returned continues the stream of the new offset.
C29_ReactivateFresh ==
    /\ (nact >= 2 /\ act_result # "err" /\ out # <<>>) =>
          /\ out[1].index = 0
          /\ out[1].data = KeystreamChunk(num_threads, ActChunk, invert_pattern)
    /\ \A i \in Streams :
          Reactivated(i) =>
              \A j \in 1 .. Len(rx[i]) :
                  LET idx == Len(ReceivedFrom(i)) + (IF got # NoChunk /\ current_index = i
                                                     THEN 1 ELSE 0) + (j - 1)
                  IN  /\ rx[i][j].index = idx
                      /\ rx[i][j].data =
                            WorkerChunkData(i, GenSeek(s_offset[i]) + idx * CHUNK_FACTOR,
                                            invert_pattern)
C29_Witness ==
    /\ nact = 2
    /\ act_result = "ok"
    /\ num_threads = 1
    /\ ActChunk = 1
    /\ Len(out) = 1
    /\ Len(rx[0]) >= 2

\* A step in which wait_chunk returns a chunk, and a step of an activation.
ChunkReturned == Len(out') = Len(out) + 1
ActivateStep == nact' = nact + 1

\* C30: current_index is always in [0, T); it advances by exactly 1 modulo T
\* in each step that returns a chunk and changes in no other step of
\* get_chunk (no chunk ready, or an error), only an activation sets it anew;
\* so any T chunks returned in a row come from T different streams.
C30_CurrentIndexCycle ==
    /\ [](current_index \in 0 .. (num_threads - 1))
    /\ [](\A k \in 1 .. Len(out) : \A m \in 1 .. Len(out) :
            (k < m /\ m - k < num_threads) => out[k].stream # out[m].stream)
    /\ [][/\ ChunkReturned => current_index' = (current_index + 1) % num_threads
          /\ (current_index' # current_index) => (ChunkReturned \/ ActivateStep)
          /\ ActivateStep =>
                (current_index' # current_index =>
                    current_index' = (act_offset' \div ChunkSize) % num_threads)]_vars
C30_Witness ==
    /\ num_threads = 2
    /\ Len(out) = 3
    /\ current_index = 1
    /\ mpc = "get"
    /\ rx[1] = <<>>

\* C35: in every interleaving of the worker of a stream and the consumer the
\* level counter of the stream stays in 0 .. MAX_THRES.
C35_LevelInRange ==
    \A i \in Streams : level[i] >= 0 /\ level[i] <= MAX_THRES

C15_ActivateFailsOnSeek ==
    \A i \in 0 .. (num_threads - 1) :
        (mpc = "idle" /\ nact > 0 /\ act_result # "none" /\ GenSeek(s_offset[i]) < 0)
            => (~is_active[i] /\ act_result = "err")

\* DtStream::stop of stream act_i is at its join, and the worker is not held
\* at the production bound of the model in the middle of a chunk.
JoinPending ==
    /\ mpc = "join"
    /\ thread_join[act_i]
    /\ ~(wpc[act_i] = "gen" /\ w_index[act_i] >= max_index)

\* C28: DtStream::stop always terminates: whatever the worker is doing when
\* stop sets the abort flag (seeking, computing a chunk, just after a send,
\* waiting at a full queue, or returned after a seek error), the worker
\* returns, so the join returns.
C28_StopTerminates == JoinPending ~> (mpc # "join" \/ wpc[act_i] = "done")
C28_Witness ==
    /\ JoinPending
    /\ abort[act_i]
    /\ wpc[act_i] = "wait"
    /\ level[act_i] >= MAX_THRES

\* ------------------------------------------------------------------------
\* Properties of the driver (specification SpecDrv).
\* ------------------------------------------------------------------------
\* The byte at position p (from 0) of the keystream of the configured streams.
KeystreamByte(p) ==
    KeystreamChunk(num_threads, p \div ChunkSize, invert_pattern)[(p % ChunkSize) + 1]

\* The bytes of the device from position from up to, not including, position to
\* are the keystream bytes of these positions.
HoldsKeystream(from, to) ==
    /\ Len(disk) >= to
    /\ \A p \in from .. (to - 1) : disk[p + 1] = KeystreamByte(p)

\* Call k is a write that succeeded and did not run into the end of the device.
GoodWrite(k) ==
    /\ hist[k].op = "write"
    /\ hist[k].ok
    /\ ~hist[k].enospc

\* C3: round trip.  When a write at an offset has succeeded with n bytes, the
\* device holds exactly these n bytes from the offset and is not modified, a
\* verify at the same offset with a limit of max_bytes succeeds and returns
\* min(max_bytes, n); the end of the device before max_bytes is a success.
C3_RoundTrip ==
    \A k \in 2 .. Len(hist) :
        ( /\ hist[k].op = "verify"
          /\ hist[k - 1].op = "write"
          /\ hist[k - 1].ok
          /\ hist[k].seek = hist[k - 1].seek
          /\ Len(disk) = hist[k - 1].adj + hist[k - 1].ret
          /\ corrupted = -1 )
        => /\ hist[k].ok
           /\ hist[k].ret = Min(hist[k].max, hist[k - 1].ret)

\* C3 witness: two streams, a write above offset 0 of a size that is not a
\* multiple of the chunk size, and a verify at the same offset that has
\* returned at the end of the device, before its limit.
C3_Witness ==
    /\ num_threads = 2
    /\ Len(hist) = 2
    /\ hist[1].op = "write" /\ hist[1].ok /\ hist[1].seek = ChunkSize
    /\ hist[1].ret % ChunkSize # 0
    /\ Len(disk) = hist[1].adj + hist[1].ret
    /\ hist[2].op = "verify" /\ hist[2].seek = ChunkSize
    /\ hist[2].max > hist[1].ret
    /\ hist[2].ret = hist[1].ret

\* C4: every write to the device in the write loop happens at the position
\* adjusted seek + bytes written so far, and the bytes written are the
\* keystream bytes of that position, wherever the file pointer was before
\* the call.
C4_WritePosition ==
    last_write # NoWrite =>
        /\ last_write.pos = d_adj + last_write.before
        /\ \A j \in 1 .. Len(last_write.data) :
               last_write.data[j] = KeystreamByte(last_write.pos + (j - 1))

\* C4 witness: a second call of write, at an offset before the end of the
\* first write (where the file pointer was left), is in its second iteration.
C4_Witness ==
    /\ num_threads = 2
    /\ Len(hist) = 1
    /\ GoodWrite(1)
    /\ dpc = "write"
    /\ d_adj > 0
    /\ d_adj < hist[1].adj + hist[1].ret
    /\ last_write # NoWrite
    /\ last_write.before > 0

\* Exactly n calls of write were made, and all have returned.
WritesDone(n) ==
    /\ dpc # "write"
    /\ CallsOf("write") = n
    /\ Len(hist) >= n

\* C5: seek equivalence.  One write of n + m bytes at offset 0 leaves the
\* first n + m keystream bytes on the (unmodified) device; for n on a chunk boundary, a
\* write of n bytes at offset 0 followed by a write of m bytes at offset n
\* leaves the same content, and a verify from offset 0 after the two writes
\* covers n + m bytes.
C5_SeekEquivalence ==
    /\ ( /\ WritesDone(1)
         /\ GoodWrite(1)
         /\ hist[1].seek = 0
         /\ corrupted = -1 )
       => /\ Len(disk) = hist[1].ret
          /\ HoldsKeystream(0, hist[1].ret)
    /\ ( /\ WritesDone(2)
         /\ GoodWrite(1)
         /\ GoodWrite(2)
         /\ hist[1].seek = 0
         /\ hist[1].ret % ChunkSize = 0
         /\ hist[2].seek = hist[1].ret
         /\ corrupted = -1 )
       => /\ Len(disk) = hist[1].ret + hist[2].ret
          /\ HoldsKeystream(0, hist[1].ret + hist[2].ret)
          /\ ( /\ Len(hist) >= 3
               /\ hist[3].op = "verify"
               /\ hist[3].seek = 0 )
             => /\ hist[3].ok
                /\ hist[3].ret = Min(hist[3].max, hist[1].ret + hist[2].ret)

\* C5 witness: two streams; a write of one chunk at offset 0, then a write at
\* the chunk boundary of a chunk and a byte, then an unlimited verify from
\* offset 0 that has covered all the bytes.
C5_Witness ==
    /\ num_threads = 2
    /\ Len(hist) = 3
    /\ GoodWrite(1) /\ hist[1].seek = 0 /\ hist[1].ret = ChunkSize
    /\ GoodWrite(2) /\ hist[2].seek = ChunkSize /\ hist[2].ret = ChunkSize + 1
    /\ hist[3].op = "verify" /\ hist[3].seek = 0 /\ hist[3].max = UNLIMITED
    /\ hist[3].ret = 2 * ChunkSize + 1

\* Position (from 0) of the first byte at or after position from in which the
\* device differs from the keystream; -1 if there is none.
FirstDifference(from) ==
    IF \E p \in from .. (Len(disk) - 1) : disk[p + 1] # KeystreamByte(p)
    THEN CHOOSE p \in from .. (Len(disk) - 1) :
            /\ disk[p + 1] # KeystreamByte(p)
            /\ \A q \in from .. (p - 1) : disk[q + 1] = KeystreamByte(q)
    ELSE -1

\* C6: a verify that finds a difference reports the absolute position on the
\* device of the first differing byte, for every seek offset.
C6_MismatchAbsolute ==
    \A k \in 1 .. Len(hist) :
        (hist[k].op = "verify" /\ hist[k].err = "mismatch")
        => hist[k].pos = FirstDifference(hist[k].adj)

\* C7: a write that ran into the end of the device has ended with success if
\* and only if max_bytes is UNLIMITED; with a finite max_bytes it has ended
\* with the write error.
C7_EnospcOutcome ==
    \A k \in 1 .. Len(hist) :
        (hist[k].op = "write" /\ hist[k].enospc)
        => /\ hist[k].ok <=> (hist[k].max = UNLIMITED)
           /\ hist[k].max # UNLIMITED => hist[k].err = "enospc"

\* C7 witness: an unlimited write has run into the end of the device and
\* succeeded, and a write with a finite limit has run into it and failed.
C7_Witness ==
    /\ Len(hist) = 2
    /\ hist[1].op = "write" /\ hist[1].enospc /\ hist[1].max = UNLIMITED /\ hist[1].ok
    /\ hist[2].op = "write" /\ hist[2].enospc /\ hist[2].max # UNLIMITED /\ ~hist[2].ok

\* C8: an unlimited write to a device that takes K more bytes from the write
\* offset and then is full returns success with K bytes written, for every K.
C8_EnospcBytesWritten ==
    \A k \in 1 .. Len(hist) :
        (hist[k].op = "write" /\ hist[k].max = UNLIMITED /\ hist[k].enospc)
        => /\ hist[k].ok
           /\ hist[k].ret = capacity - hist[k].adj

\* C31: every endpoint write of the write loop has the length
\* min(chunk_size, bytes left before it), and bytes_written + bytes_left is
\* max_bytes all through the loop with neither counter leaving 0 .. max_bytes
\* (so nothing overflows or underflows, with max_bytes = UNLIMITED too); a
\* write with a finite max_bytes that succeeds returns exactly max_bytes.
C31_WriteAccounting ==
    /\ dpc = "write" =>
          /\ bytes_done + bytes_left = d_max
          /\ bytes_done >= 0 /\ bytes_done <= d_max
          /\ bytes_left >= 0 /\ bytes_left <= d_max
          /\ last_write # NoWrite =>
                /\ Len(last_write.data) = Min(ChunkSize, d_max - last_write.before)
                /\ last_write.before + Len(last_write.data) <= d_max
    /\ \A k \in 1 .. Len(hist) :
          hist[k].op = "write" /\ hist[k].ok =>
             /\ hist[k].ret <= hist[k].max
             /\ hist[k].max # UNLIMITED => hist[k].ret = hist[k].max

\* C31 witness: a write of two chunks and one byte has returned with success
\* (its last endpoint write was one byte long), and an unlimited write is in
\* its loop with one chunk written.
C31_Witness ==
    /\ \E k \in 1 .. Len(hist) :
          /\ hist[k].op = "write" /\ hist[k].ok
          /\ hist[k].max = 2 * ChunkSize + 1 /\ hist[k].ret = 2 * ChunkSize + 1
    /\ dpc = "write" /\ d_max = UNLIMITED
    /\ bytes_done = ChunkSize /\ Len(last_write.data) = ChunkSize

RECURSIVE ChunksTaken(_)
ChunksTaken(S) ==
    IF S = {} THEN 0
    ELSE LET i == CHOOSE x \in S : TRUE IN w_index[i] + ChunksTaken(S \ {i})

\* The call in progress, or the last call that has returned, is a verify.
InVerify ==
    \/ dpc = "verify"
    \/ dpc = "idle" /\ hist # <<>> /\ hist[Len(hist)].op = "verify"

\* C37: the verify loop takes exactly one chunk per compared buffer; reads
\* that do not complete the buffer add to it and take no chunk.  However the
\* endpoint splits its reads, the k-th compared buffer holds the bytes of the
\* device from the start of the k-th chunk after the adjusted offset and is
\* compared with this chunk from its first byte.
C37_OneChunkPerBuffer ==
    InVerify =>
       /\ ChunksTaken(Streams) = Len(compared)
       /\ dpc = "verify" =>
             /\ read_count < read_len
             /\ fpos = d_adj + Len(compared) * ChunkSize + read_count
       /\ \A k \in 1 .. Len(compared) :
             /\ compared[k].pos = d_adj + (k - 1) * ChunkSize
             /\ compared[k].rc >= 1 /\ compared[k].rc <= ChunkSize
             /\ compared[k].buf =
                   [p \in 1 .. compared[k].rc |-> disk[compared[k].pos + p]]
             /\ compared[k].chunk =
                   KeystreamChunk(num_threads, (d_adj \div ChunkSize) + (k - 1),
                                  invert_pattern)

\* C37 witness: two streams; a verify above offset 0 has compared one buffer
\* and has read all but one byte of the next one, which is not yet complete.
C37_Witness ==
    /\ num_threads = 2
    /\ dpc = "verify"
    /\ d_adj = ChunkSize
    /\ Len(compared) = 1
    /\ read_count = ChunkSize - 1

\* C16: the write loop checks the abort flag at the start of every iteration,
\* before a chunk is obtained and written: an iteration that starts with abort
\* set writes nothing to the endpoint, finalises once with failure and returns
\* the error "Aborted by signal"; a write started with abort set writes zero bytes.
AbortedReturn(h) ==
    /\ Len(h) > 0
    /\ h[Len(h)].op = "write"
    /\ ~h[Len(h)].ok
    /\ h[Len(h)].err = "abort"
C16_AbortCheckedFirst ==
    [][(abort_req /\ dpc = "write") =>
          (disk' = disk /\ fpos' = fpos /\ bytes_done' = bytes_done
           /\ dpc' = "idle" /\ finalized' = finalized + 1 /\ AbortedReturn(hist'))]_vars

\* C17: when Disktest::write or Disktest::verify has returned, with success or
\* with an error, every worker thread started for the call has been stopped and
\* joined: no stream is active and no stream holds a thread handle.
C17_WorkersJoinedAtReturn ==
    (dpc = "idle" /\ hist # <<>>) =>
        \A i \in 0 .. (num_threads - 1) : ~is_active[i] /\ ~thread_join[i]

\* ------------------------------------------------------------------------
\* Properties of the round loop (specification SpecMain).
\* ------------------------------------------------------------------------
Failed(k) == runs[k].outcome # "ok"

\* C18: in the round loop nothing runs after the first failing write or
\* verify: only the last mode started can have failed, the verify of a round
\* whose write failed is not started, and the result of the program is the
\* failure of that mode (Ok when no mode failed).
C18_StopAtFirstFailure ==
    /\ \A k \in 1 .. Len(runs) : Failed(k) => k = Len(runs)
    /\ \A k \in 1 .. Len(runs) :
          (runs[k].mode = "verify" /\ k > 1 /\ runs[k - 1].round = runs[k].round)
              => ~Failed(k - 1)
    /\ main_pc \in {"exit", "returned"} =>
          IF runs # <<>> /\ Failed(Len(runs))
          THEN result = [ok |-> FALSE, mode |-> runs[Len(runs)].mode,
                         round |-> runs[Len(runs)].round, err |-> runs[Len(runs)].outcome]
          ELSE result = OkResult /\ round = args.rounds
C18_Witness ==
    /\ main_pc = "returned"
    /\ args.write /\ args.verify
    /\ Len(runs) = 3
    /\ runs[3].mode = "write" /\ runs[3].outcome = "fail"
    /\ runs[3].round + 1 < args.rounds

\* C19: for every round in [start_round, rounds) the write and the verify of
\* the round use round_id = round when write is enabled; in verify-only mode
\* every round uses round_id = start_round.
C19_RoundIdSelection ==
    \A k \in 1 .. Len(runs) :
        /\ runs[k].round \in args.start_round .. (args.rounds - 1)
        /\ runs[k].round_id = IF args.write THEN runs[k].round ELSE args.start_round
C19_Witness ==
    /\ main_pc = "returned"
    /\ ~args.write
    /\ Len(runs) = 2
    /\ runs[1].round # runs[2].round
    /\ runs[1].round_id = runs[2].round_id
    /\ runs[2].round_id = args.start_round
    /\ args.start_round > 0

\* C39: after into_args start_round < rounds holds: rounds = 0 has become
\* u64::MAX, a rounds not above start_round has become start_round + 1 without
\* wrapping, every other rounds is kept; so main runs at least one round.
C39_AtLeastOneRound ==
    /\ args.start_round < args.rounds
    /\ args.rounds <= U64_MAX
    /\ args.cli_rounds = 0 => args.rounds = U64_MAX
    /\ args.cli_rounds # 0 =>
          args.rounds = IF args.start_round >= args.cli_rounds
                        THEN args.start_round + 1
                        ELSE args.cli_rounds
    /\ main_pc \in {"exit", "returned"} =>
          /\ runs # <<>>
          /\ runs[1].round = args.start_round

\* C39 witness: main has returned after its one round, the last round there
\* is: --start-round u64::MAX - 1 with --rounds 1.
C39_Witness ==
    /\ main_pc = "returned"
    /\ args.cli_rounds = 1
    /\ args.start_round = U64_MAX - 1
    /\ args.rounds = U64_MAX
    /\ Len(runs) = 2
    /\ result = OkResult

\* ------------------------------------------------------------------------
\* Properties of the chunk buffers (specification SpecBuf).
\* ------------------------------------------------------------------------
Count(q, b) == Cardinality({k \in 1 .. Len(q) : q[k] = b})

\* The number of places that hold buffer b: the workers, the channels of the
\* streams, the wrappers of the consumer, the channels of the buffer cache.
InWorkers(b) == Cardinality({i \in Streams : b_data[i] = b})
InQueues(b) == Cardinality({i \in Streams : Count(b_rx[i], b) > 0})
InWrappers(b) == Cardinality({k \in 1 .. Len(b_held) : b_held[k].buf = b})
InCaches(b) == Cardinality({i \in Streams : Count(b_cache[i], b) > 0})
Holders(b) == InWorkers(b) + InQueues(b) + InWrappers(b) + InCaches(b)

\* C21: every chunk buffer that is allocated and not deallocated is held by
\* exactly one of: a worker, a stream queue, a wrapper of the consumer, a
\* channel of the buffer cache, and is there only once; so the buffer a worker
\* writes into is neither in a queue nor with the consumer.
C21_OneOwner ==
    /\ \A b \in 1 .. b_alloc :
          /\ Holders(b) = (IF b \in b_freed THEN 0 ELSE 1)
          /\ \A i \in Streams : Count(b_rx[i], b) <= 1 /\ Count(b_cache[i], b) <= 1
    /\ \A i \in Streams :
          b_data[i] # 0 => (InQueues(b_data[i]) = 0 /\ InWrappers(b_data[i]) = 0)
C21_Witness ==
    /\ num_threads = 2
    /\ \E b \in 1 .. b_alloc : InWorkers(b) = 1 /\ b_data[1] = b
    /\ \E b \in 1 .. b_alloc : InQueues(b) = 1
    /\ \E b \in 1 .. b_alloc : InWrappers(b) = 1
    /\ \E b \in 1 .. b_alloc : InCaches(b) = 1

\* ------------------------------------------------------------------------
\* Properties of the key derivation (specification SpecKdf).
\* ------------------------------------------------------------------------
\* Byte k (from 0) of the little-endian form of n.
RECURSIVE LeByteAt(_, _)
LeByteAt(n, k) == IF k = 0 THEN n % 256 ELSE LeByteAt(n \div 256, k - 1)

KdfCalled(j) == kdf_out[j] # NoCall

\* C22: the password is seed || le32(thread_id) with no suffix for round 0 and
\* seed || le32(thread_id) || 'R' || le64(round_id) for a round from 1 on; the
\* salt is derived from that password alone, so for round 0 the salt and the
\* key are those of seed || le32(thread_id).
C22_PasswordLayout ==
    \A j \in 1 .. 2 :
        KdfCalled(j) =>
            LET in == kdf_in[j]
                pw == kdf_out[j].password
                n == Len(in.seed)
            IN  /\ \A k \in 1 .. n : pw[k] = in.seed[k]
                /\ Len(pw) >= n + 4
                /\ \A k \in 0 .. 3 : pw[n + 1 + k] = LeByteAt(in.thread_id, k)
                /\ in.round_id = 0 => Len(pw) = n + 4
                /\ in.round_id >= 1 =>
                      /\ Len(pw) = n + 13
                      /\ pw[n + 5] = 82
                      /\ \A k \in 0 .. 7 : pw[n + 6 + k] = LeByteAt(in.round_id, k)
                /\ kdf_out[j].salt = <<"sha512", "disktest salt", pw>>
                /\ kdf_out[j].dk = <<"pbkdf2", kdf_out[j].salt, pw>>
C22_Witness ==
    /\ KdfCalled(1) /\ KdfCalled(2)
    /\ kdf_in[1].seed = kdf_in[2].seed
    /\ kdf_in[1].thread_id = 1 /\ kdf_in[2].thread_id = 1
    /\ kdf_in[1].round_id = 0 /\ kdf_in[2].round_id = 1
    /\ Len(kdf_out[2].password) = Len(kdf_out[1].password) + 9

\* C23: two different triples (seed, thread_id, round_id), with seeds of equal
\* or of different lengths, never give the same password.
C23_PasswordInjective ==
    (KdfCalled(1) /\ KdfCalled(2) /\ kdf_in[1] # kdf_in[2])
        => kdf_out[1].password # kdf_out[2].password

\* ------------------------------------------------------------------------
\* Properties of the generator (specification SpecGen).
\* ------------------------------------------------------------------------
\* The block a new generator with the given key gives on its n-th next(buf, 1).
RECURSIVE FreshCounterBefore(_)
FreshCounterBefore(n) ==
    IF n = 1 THEN 0 ELSE GenCounterAfter(FreshCounterBefore(n - 1), 1)
FreshBlock(key, n) == GenNext(key, FreshCounterBefore(n), 1)

SeekThenNext(n) ==
    /\ n + 1 <= Len(g_hist)
    /\ g_hist[n].op = "seek" /\ g_hist[n].ok
    /\ g_hist[n + 1].op = "next" /\ g_hist[n + 1].arg = 1

\* C24: for every block count k, the next(buf, 1) that follows seek(k * base_size)
\* gives the block a new generator with the same key gives on its (k+1)-th
\* next(buf, 1), also when next was called before the seek.
C24_SeekEquivalence ==
    \A n \in 1 .. Len(g_hist) :
        SeekThenNext(n) =>
            /\ g_hist[n].arg % BASE_SIZE = 0
            /\ g_hist[n + 1].data = FreshBlock(g_key, (g_hist[n].arg \div BASE_SIZE) + 1)
C24_Witness ==
    /\ Len(g_hist) = 3
    /\ g_hist[1].op = "next" /\ g_hist[1].arg = 2
    /\ SeekThenNext(2)
    /\ g_hist[2].arg = 3 * BASE_SIZE
    /\ g_hist[3].data # g_hist[1].data

\* Two calls of next, one right after the other.
NextThenNext(n) ==
    /\ n + 1 <= Len(g_hist)
    /\ g_hist[n].op = "next" /\ g_hist[n + 1].op = "next"

\* The counter after the n-th call.
CounterAfterCall(n) == IF n = Len(g_hist) THEN g_counter ELSE g_hist[n + 1].before

\* C32: next(buf, a) followed by next(buf, b) gives the bytes one next(buf, a + b)
\* gives on a generator in the state the first call found; every next(count)
\* moves the generator on by exactly count base blocks.
C32_NextConcat ==
    \A n \in 1 .. Len(g_hist) :
        /\ g_hist[n].op = "next" => CounterAfterCall(n) = g_hist[n].before + g_hist[n].arg
        /\ NextThenNext(n) =>
              g_hist[n].data \o g_hist[n + 1].data =
                 GenNext(g_key, g_hist[n].before, g_hist[n].arg + g_hist[n + 1].arg)

\* C32 witness: after a seek, a next of two blocks and then a next of one block.
C32_Witness ==
    /\ Len(g_hist) = 3
    /\ g_hist[1].op = "seek" /\ g_hist[1].ok /\ g_hist[1].arg = 2 * BASE_SIZE
    /\ NextThenNext(2)
    /\ g_hist[2].arg = 2 /\ g_hist[3].arg = 1
    /\ g_hist[3].data # SubSeq(g_hist[2].data, BASE_SIZE + 1, 2 * BASE_SIZE)

\* ------------------------------------------------------------------------
\* Properties of the Windows raw I/O backend (specification SpecRawIo).
\* ------------------------------------------------------------------------
\* The last call was a write that WriteFile failed.
RawWriteFailed == rio_calls > 0 /\ rio_write_mode /\ ~rio_last.ok

\* C26: a write that the system failed returns Enospc when the system reports
\* disk-full or the offset has reached the known disk size, returns an error
\* in every other case, and never returns Ok(n).
C26_FailedWriteOutcome ==
    RawWriteFailed =>
        /\ rio_last.result # "Ok"
        /\ rio_last.result = "Enospc" <=>
              (rio_last.code = "ERROR_DISK_FULL" \/ rio_cur_offset >= rio_disk_size)

\* ------------------------------------------------------------------------
\* Properties of BufCache (specification SpecCache).
\* ------------------------------------------------------------------------
\* The buffers put into channel c and not yet taken out of it, oldest first.
NotYetTaken(c) ==
    [k \in 1 .. (Len(bc_log[c]) - bc_taken[c]) |-> bc_log[c][bc_taken[c] + k].buf]

\* buf is src cut or filled with zeros to the length len.
IsResized(buf, src, len) ==
    /\ Len(buf) = len
    /\ \A p \in 1 .. len : buf[p] = IF p <= Len(src) THEN src[p] ELSE 0

\* C33: pull(len) returns a buffer of exactly len bytes.  When a buffer pushed
\* for the consumer is waiting, it is the oldest of them (the n-th buffer taken
\* is the n-th buffer pushed, and it was pushed for the id of the consumer),
\* cut or zero-filled to len; otherwise it is len zero bytes.
C33_PullFifo ==
    /\ \A c \in 1 .. Len(bc_id) :
          /\ \A k \in 1 .. Len(bc_log[c]) : bc_log[c][k].id = bc_id[c]
          /\ bc_alive[c] => bc_chan[c] = NotYetTaken(c)
    /\ bc_last.op = "pull" =>
          /\ Len(bc_last.buf) = bc_last.len
          /\ IF bc_last.avail
             THEN /\ bc_taken[bc_last.cons] >= 1
                  /\ IsResized(bc_last.buf,
                               bc_log[bc_last.cons][bc_taken[bc_last.cons]].buf,
                               bc_last.len)
             ELSE IsResized(bc_last.buf, <<>>, bc_last.len)

\* C33 witness: two consumers; the consumer of id 42 has pulled the second of
\* two buffers pushed for it, a buffer of three bytes cut to two, while a
\* buffer pushed for id 43 is still waiting.
C33_Witness ==
    /\ Len(bc_id) = 2 /\ bc_id[1] = 42 /\ bc_id[2] = 43
    /\ bc_last.op = "pull" /\ bc_last.cons = 1 /\ bc_last.len = 2
    /\ bc_taken[1] = 2
    /\ bc_log[1][1].buf = <<1>> /\ bc_log[1][2].buf = <<4, 5, 6>>
    /\ bc_last.buf = <<4, 5>>
    /\ bc_chan[2] = <<(<<1>>)>>

Registered(id) == \E c \in 1 .. Len(bc_id) : bc_id[c] = id

\* The consumer made by the latest new_consumer(id) is dropped.
ConsumerGone(id) ==
    /\ Registered(id)
    /\ \E c \in 1 .. Len(bc_id) :
          /\ bc_id[c] = id /\ ~bc_alive[c]
          /\ \A d \in (c + 1) .. Len(bc_id) : bc_id[d] # id

\* C34: push panics exactly when new_consumer was never called for the id; a
\* push for an id whose consumer is dropped does not panic and the buffer
\* goes nowhere.
C34_PushPanic ==
    /\ bc_panic => bc_last.op = "push"
    /\ bc_last.op = "push" => (bc_panic <=> ~Registered(bc_last.id))
    /\ \A c \in 1 .. Len(bc_id) : ~bc_alive[c] => bc_chan[c] = <<>>

\* C34 witness: the last call was a push for an id whose consumer is dropped,
\* and it has not panicked.
C34_Witness ==
    /\ bc_last.op = "push"
    /\ ConsumerGone(bc_last.id)
    /\ ~bc_panic
    /\ \A c \in 1 .. Len(bc_id) : bc_chan[c] = <<>>

\* ------------------------------------------------------------------------
\* Properties of the life of a DtStream (specification SpecLife).
\* ------------------------------------------------------------------------
\* The worker threads that were spawned and have not returned.
LiveThreads == {t \in 1 .. Len(lf_threads) : lf_threads[t] # "done"}

\* C38: whatever the order of the activate, get_chunk and drop calls, the
\* stream has at most one worker thread that has not returned, and neither
\* assertion at the top of start fails.
C38_OneWorkerThread ==
    /\ Cardinality(LiveThreads) <= 1
    /\ lf_pc # "panic"
    /\ \A t \in LiveThreads : t = lf_join \/ t = lf_joining

\* C38 witness: the stream was activated three times with get_chunk calls in
\* between, and is dropped while its third worker is at work; the first two
\* workers have returned.
C38_Witness ==
    /\ Len(lf_threads) = 3
    /\ lf_threads[3] = "work"
    /\ lf_call = "drop" /\ lf_pc = "join"
    /\ lf_last = "polled"

====
